---- MODULE Spec2Model ----
(***************************************************************************)
(* A model of the recommendations / analytics engine of the wellness       *)
(* tracker (src/recommendations.py, class SmartRecommendationsEngine and   *)
(* get_recommendation_summary) over the JSON stores of src/data_manager.py.*)
(*                                                                         *)
(* Conventions                                                             *)
(*  - a Python str is a sequence of one-character strings, so that         *)
(*    lower(), split() and the substring test "a in b" are computed;       *)
(*  - a Python float is an exact rational <<num, den>> (den > 0, lowest    *)
(*    terms); a value 1 - stdev or stdev is kept as a + b*sqrt(rad), so    *)
(*    that every comparison with a rational threshold is exact;            *)
(*  - a date 'YYYY-MM-DD' is its day number (string order = day order);    *)
(*  - the class is defined twice in the file: the methods modelled are the *)
(*    effective ones (the last definition of each name).                   *)
(***************************************************************************)
EXTENDS Integers, Sequences, FiniteSets, TLC

\* routines, workouts, diets: the three stored JSON files
\* today, hour: the engine's self.today and the hour of self.current_time
\* memo: the engine's _wellness_profile (<<>> is None)
\* op, result: the last operation and what it returned or raised
\* routines_data: the local of a generate_wellness_profile call that has
\*   loaded the history and not yet returned (<<>> when no call is open)
VARIABLES routines, workouts, diets, today, hour, memo, op, result, routines_data

vars == <<routines, workouts, diets, today, hour, memo, op, result, routines_data>>

-----------------------------------------------------------------------------
(* Bounds of the model                                                     *)

\* longest stored history in the analysis specification (Spec)
MaxRoutines == 5

\* largest workout catalog, and longest history, in SpecWorkout
MaxWorkouts == 4
MaxLog == 2

\* largest diet catalog, and longest history, in SpecMeal
MaxDiets == 2
MaxMealLog == 1

\* longest history, and largest catalogs, in SpecSummary
MaxStored == 10
MaxCatalog == 1

\* longest history written while one engine instance lives, in SpecEngine
MaxEngineLog == 2

\* longest history of SpecMalformed
MaxMalformedLog == 2

\* the days of SpecTrend
MaxTrendDays == 7

\* longest history of SpecInterleaved
MaxInterleavedLog == 3

-----------------------------------------------------------------------------
(* Values                                                                  *)

\* the element of a singleton.  The({e : x \in {v}}) is e with x naming the
\* value of v: v is computed once, as the right-hand side of an assignment is
The(S) == CHOOSE x \in S : TRUE

-----------------------------------------------------------------------------
(* Sequences                                                               *)

\* the list s with every element computed once (a Python list is a value,
\* not a recipe)
Force(s) == s \o <<>>

\* sum(s), by halves so that the evaluation stays shallow
RECURSIVE SumRange(_, _, _)
SumRange(s, lo, hi) ==
    IF lo > hi THEN 0
    ELSE IF lo = hi THEN s[lo]
    ELSE The({SumRange(s, lo, mid) + SumRange(s, mid + 1, hi) :
                 mid \in {(lo + hi) \div 2}})

SumSeq(s) == The({SumRange(v, 1, Len(v)) : v \in {Force(s)}})

\* the concatenation of the sequences of ss, in order
RECURSIVE ConcatRange(_, _, _)
ConcatRange(ss, lo, hi) ==
    IF lo > hi THEN <<>>
    ELSE IF lo = hi THEN ss[lo]
    ELSE The({ConcatRange(ss, lo, mid) \o ConcatRange(ss, mid + 1, hi) :
                 mid \in {(lo + hi) \div 2}})

Concat(ss) == The({ConcatRange(lists, 1, Len(lists)) : lists \in {Force(ss)}})

\* s[-k:]
LastK(s, k) ==
    The({IF Len(v) <= k THEN v ELSE SubSeq(v, Len(v) - k + 1, Len(v)) : v \in {s}})

\* s[:k]
FirstK(s, k) == The({IF Len(v) <= k THEN v ELSE SubSeq(v, 1, k) : v \in {s}})

\* the keys of an insertion-ordered dict filled in the order of s
FirstOccurrences(s) ==
    The({The({Force([k \in 1..Cardinality(firsts) |->
                  v[CHOOSE i \in firsts : Cardinality({j \in firsts : j < i}) = k - 1]]) :
              firsts \in {{i \in 1..Len(v) : \A j \in 1..(i - 1) : v[j] # v[i]}}}) :
         v \in {Force(s)}})

-----------------------------------------------------------------------------
(* Python str                                                              *)

\* a str literal as its characters
Chars(s) == Force([i \in 1..Len(s) |-> SubSeq(s, i, i)])

RECURSIVE JoinRange(_, _, _, _)
JoinRange(parts, sep, lo, hi) ==
    IF lo = hi THEN parts[lo]
    ELSE parts[lo] \o sep \o JoinRange(parts, sep, lo + 1, hi)

\* sep.join(parts), for parts held as characters
Join(parts, sep) ==
    The({IF v = <<>> THEN <<>> ELSE JoinRange(v, sep, 1, Len(v)) : v \in {Force(parts)}})

\* the characters lo..hi of cs as one string, by halves
RECURSIVE TextRange(_, _, _)
TextRange(cs, lo, hi) ==
    IF lo > hi THEN ""
    ELSE IF lo = hi THEN cs[lo]
    ELSE The({TextRange(cs, lo, mid) \o TextRange(cs, mid + 1, hi) :
                 mid \in {(lo + hi) \div 2}})

\* a str held as characters, as one string
Text(cs) == The({TextRange(v, 1, Len(v)) : v \in {cs}})

\* ', '.join(parts) for parts that are strings
JoinText(parts, sep) ==
    The({IF v = <<>> THEN "" ELSE JoinRange(v, sep, 1, Len(v)) : v \in {Force(parts)}})

LowerChar(c) ==
    CASE c = "A" -> "a" [] c = "B" -> "b" [] c = "C" -> "c" [] c = "D" -> "d"
      [] c = "E" -> "e" [] c = "F" -> "f" [] c = "G" -> "g" [] c = "H" -> "h"
      [] c = "I" -> "i" [] c = "J" -> "j" [] c = "K" -> "k" [] c = "L" -> "l"
      [] c = "M" -> "m" [] c = "N" -> "n" [] c = "O" -> "o" [] c = "P" -> "p"
      [] c = "Q" -> "q" [] c = "R" -> "r" [] c = "S" -> "s" [] c = "T" -> "t"
      [] c = "U" -> "u" [] c = "V" -> "v" [] c = "W" -> "w" [] c = "X" -> "x"
      [] c = "Y" -> "y" [] c = "Z" -> "z" [] OTHER -> c

\* str.lower()
Lower(s) == The({Force([i \in 1..Len(v) |-> LowerChar(v[i])]) : v \in {s}})

\* sub in s
Contains(s, sub) ==
    \E v \in {s}, w \in {sub} :
        \E i \in 0..(Len(v) - Len(w)) : SubSeq(v, i + 1, i + Len(w)) = w

\* any(word in s for word in words)
ContainsAny(s, words) == \E v \in {s} : \E w \in words : Contains(v, w)

\* str.split(): the maximal runs of non-blank characters, in order
Split(s) ==
    The({The({LET stop(i) == CHOOSE j \in i..Len(v) :
                                /\ \A k \in i..j : v[k] # " "
                                /\ (j = Len(v) \/ v[j + 1] = " ")
                  nth(k) == CHOOSE i \in starts :
                                Cardinality({j \in starts : j < i}) = k - 1
              IN  Force([k \in 1..Cardinality(starts) |->
                      The({SubSeq(v, i, stop(i)) : i \in {nth(k)}})]) :
              starts \in {{i \in 1..Len(v) : v[i] # " " /\ (i = 1 \/ v[i - 1] = " ")}}}) :
         v \in {s}})

-----------------------------------------------------------------------------
(* Exact rationals for Python floats                                       *)

Abs(x) == IF x < 0 THEN -x ELSE x

RECURSIVE Gcd(_, _)
Gcd(a, b) == The({IF n = 0 THEN m ELSE Gcd(n, m % n) : m \in {a}, n \in {b}})

\* n/d in lowest terms with a positive denominator (d # 0)
R(n, d) ==
    The({The({IF b < 0 THEN <<-(a \div g), -(b \div g)>> ELSE <<a \div g, b \div g>> :
              g \in {Gcd(Abs(a), Abs(b))}}) :
         a \in {n}, b \in {d}})

Zero == R(0, 1)
One == R(1, 1)
RInt(n) == R(n, 1)
RAdd(x, y) ==
    The({The({R(p[1] * (q[2] \div g) + q[1] * (p[2] \div g), (p[2] \div g) * q[2]) :
              g \in {Gcd(p[2], q[2])}}) :
         p \in {x}, q \in {y}})
RNeg(x) == The({<<-p[1], p[2]>> : p \in {x}})
RSub(x, y) == RAdd(x, RNeg(y))
RMul(x, y) == The({R(p[1] * q[1], p[2] * q[2]) : p \in {x}, q \in {y}})
RDiv(x, y) == The({R(p[1] * q[2], p[2] * q[1]) : p \in {x}, q \in {y}})
RLt(x, y) == \E p \in {x}, q \in {y} : p[1] * q[2] < q[1] * p[2]
RLe(x, y) == \E p \in {x}, q \in {y} : p[1] * q[2] <= q[1] * p[2]
RGt(x, y) == RLt(y, x)
RGe(x, y) == RLe(y, x)
RMin(x, y) == The({IF RLe(p, q) THEN p ELSE q : p \in {x}, q \in {y}})
RMax(x, y) == The({IF RGe(p, q) THEN p ELSE q : p \in {x}, q \in {y}})
RAbs(x) == The({<<Abs(p[1]), p[2]>> : p \in {x}})

\* sum(xs), by halves so that the evaluation stays shallow
RECURSIVE RSumRange(_, _, _)
RSumRange(xs, lo, hi) ==
    IF lo > hi THEN Zero
    ELSE IF lo = hi THEN xs[lo]
    ELSE The({RAdd(RSumRange(xs, lo, mid), RSumRange(xs, mid + 1, hi)) :
                 mid \in {(lo + hi) \div 2}})

RSum(xs) == The({RSumRange(v, 1, Len(v)) : v \in {Force(xs)}})

\* statistics.mean (xs non-empty)
Mean(xs) == The({RDiv(RSum(v), RInt(Len(v))) : v \in {Force(xs)}})

\* statistics.variance: the sample variance (xs has at least 2 points)
Variance(xs) ==
    The({The({RDiv(RSum([i \in 1..Len(v) |->
                       The({RMul(d, d) : d \in {RSub(v[i], m)}})]),
                   RInt(Len(v) - 1)) :
              m \in {Mean(v)}}) :
         v \in {Force(xs)}})

\* a + b*sqrt(rad), b in {-1, 0, 1}: the values built from statistics.stdev
Surd(a, b, rad) == [a |-> a, b |-> b, rad |-> rad]
SurdOf(q) == Surd(q, 0, Zero)

\* statistics.stdev(xs) = sqrt(variance)
Stdev(xs) == Surd(Zero, 1, Variance(xs))

\* 1 - stdev(xs)
OneMinus(s) == The({Surd(RSub(One, v.a), -(v.b), v.rad) : v \in {s}})

\* s > q, s < q, s >= q, s <= q for a rational q
SurdGt(s, q) ==
    \E v \in {s} : \E d \in {RSub(q, v.a)} :
        CASE v.b = 0 -> RLt(d, Zero)
          [] v.b = 1 -> RLt(d, Zero) \/ RGt(v.rad, RMul(d, d))
          [] OTHER   -> RLt(d, Zero) /\ RLt(v.rad, RMul(d, d))

SurdLt(s, q) ==
    \E v \in {s} : \E d \in {RSub(q, v.a)} :
        CASE v.b = 0 -> RGt(d, Zero)
          [] v.b = 1 -> RGt(d, Zero) /\ RLt(v.rad, RMul(d, d))
          [] OTHER   -> RGt(d, Zero) \/ RGt(v.rad, RMul(d, d))

SurdGe(s, q) == ~SurdLt(s, q)
SurdLe(s, q) == ~SurdGt(s, q)

\* round(x) as the format specs .0f and .0% round: to the nearest integer,
\* a half to the even one
RoundHalfEven(x) ==
    The({The({IF 2 * (p[1] - floor * p[2]) < p[2] THEN floor
              ELSE IF 2 * (p[1] - floor * p[2]) > p[2] THEN floor + 1
              ELSE IF floor % 2 = 0 THEN floor ELSE floor + 1 :
              floor \in {p[1] \div p[2]}}) :
         p \in {x}})

\* f"{x:.0%}"
PercentText(x) == ToString(RoundHalfEven(RMul(x, RInt(100)))) \o "%"

\* f"{x:.0f}"
RoundedText(x) == ToString(RoundHalfEven(x))

-----------------------------------------------------------------------------
(* The records of the stores (src/models.py)                               *)

\* a RoutineTask dict; has_completed = FALSE: the dict carries no 'completed'
Task(time, name, description, category, duration, completed, has_completed) ==
    [time |-> time, name |-> name, description |-> description,
     category |-> category, duration |-> duration,
     completed |-> completed, has_completed |-> has_completed]

\* a RoutineTask dict that carries no 'description' key
TaskWithoutDescription(time, name, category, duration, completed) ==
    [time |-> time, name |-> name, category |-> category, duration |-> duration,
     completed |-> completed, has_completed |-> TRUE]

\* a DailyRoutine dict; date_ok = FALSE: 'date' is not a '%Y-%m-%d' string
Routine(date, date_ok, tasks) ==
    [date |-> date, date_ok |-> date_ok, tasks |-> tasks]

\* a lookup that takes a missing 'completed' key for done
CompletedByDefault(task) == IF task.has_completed THEN task.completed ELSE TRUE

\* task.get('completed', False)
Completed(task) == task.has_completed /\ task.completed

WeekdayNames ==
    <<"Monday", "Tuesday", "Wednesday", "Thursday", "Friday", "Saturday", "Sunday">>

\* datetime.strptime(date, '%Y-%m-%d').strftime('%A'); day 0 is a Monday
Weekday(day) == WeekdayNames[(day % 7) + 1]

DigitValue(c) ==
    CASE c = "0" -> 0 [] c = "1" -> 1 [] c = "2" -> 2 [] c = "3" -> 3
      [] c = "4" -> 4 [] c = "5" -> 5 [] c = "6" -> 6 [] c = "7" -> 7
      [] c = "8" -> 8 [] c = "9" -> 9 [] OTHER -> -1

\* s.split(':')[0]
RECURSIVE BeforeColon(_)
BeforeColon(s) ==
    IF s = <<>> \/ Head(s) = ":" THEN <<>> ELSE <<Head(s)>> \o BeforeColon(Tail(s))

RECURSIVE DigitsValue(_, _)
DigitsValue(s, acc) ==
    IF s = <<>> THEN acc ELSE DigitsValue(Tail(s), 10 * acc + DigitValue(Head(s)))

\* int(s): decimal digits with an optional sign; ok = FALSE is ValueError
ParseInt(s) ==
    The({The({The({[ok |-> ok,
                    val |-> IF ok
                            THEN (IF Head(v) = "-" THEN -DigitsValue(body, 0)
                                  ELSE DigitsValue(body, 0))
                            ELSE 0] :
                   ok \in {body # <<>> /\ \A i \in 1..Len(body) : DigitValue(body[i]) >= 0}}) :
              body \in {IF v # <<>> /\ Head(v) \in {"-", "+"} THEN Tail(v) ELSE v}}) :
         v \in {s}})

\* hour = int(task['time'].split(':')[0]) inside try/except
TaskHour(task) == ParseInt(BeforeColon(task.time))

get_time_period(h) ==
    IF 5 <= h /\ h < 9 THEN "Early Morning"
    ELSE IF 9 <= h /\ h < 12 THEN "Morning"
    ELSE IF 12 <= h /\ h < 17 THEN "Afternoon"
    ELSE IF 17 <= h /\ h < 21 THEN "Evening"
    ELSE "Night"

\* completed / total if total > 0 else 0, for one routine
RoutineRate(r) ==
    The({IF Len(tasks) > 0
         THEN R(Cardinality({i \in 1..Len(tasks) : Completed(tasks[i])}), Len(tasks))
         ELSE Zero :
         tasks \in {r.tasks}})

PainWords == {<<"p","a","i","n">>, <<"r","e","l","i","e","f">>, <<"w","r","i","s","t">>}
StretchWord == <<"s","t","r","e","t","c","h">>
RecoveryWords ==
    {StretchWord, <<"r","e","c","o","v","e","r","y">>, <<"r","e","s","t">>,
     <<"m","a","s","s","a","g","e">>, <<"r","e","l","a","x","a","t","i","o","n">>}

\* sorted(routines_data, key=lambda x: x['date']): a stable sort, so equal
\* dates stay in stored order
SortByDate(rs) ==
    The({LET rank(i) ==
                 Cardinality({j \in 1..Len(v) : v[j].date < v[i].date})
                 + Cardinality({j \in 1..Len(v) : j < i /\ v[j].date = v[i].date})
         IN  Force([k \in 1..Len(v) |-> v[CHOOSE i \in 1..Len(v) : rank(i) = k - 1]]) :
         v \in {rs}})

-----------------------------------------------------------------------------
(* get_completion_patterns                                                 *)

\* one entry per task of the history, in the order the loops visit them
Observations(rs) ==
    The({Concat([i \in 1..Len(v) |->
             Force([j \in 1..Len(v[i].tasks) |->
                 [category |-> v[i].tasks[j].category,
                  hour |-> TaskHour(v[i].tasks[j]),
                  weekday |-> Weekday(v[i].date),
                  duration |-> v[i].tasks[j].duration,
                  done |-> Completed(v[i].tasks[j])]])]) :
         v \in {rs}})

\* only the completions that are True are kept
DoneOfCompleted(obs) ==
    The({SelectSeq(Force([i \in 1..Len(v) |-> v[i].done]), LAMBDA b : b) : v \in {obs}})

DoneOf(obs) == The({Force([i \in 1..Len(v) |-> v[i].done]) : v \in {obs}})

\* a defaultdict(list) filled by append, as a function on the keys touched
EmptyPatterns ==
    [best_categories |-> <<>>, best_times |-> <<>>, optimal_durations |-> <<>>,
     success_sequences |-> <<>>, completion_by_weekday |-> <<>>,
     total_completion_rate |-> Zero]

\* strptime raises ValueError on the first routine whose date does not parse
PatternsRaises(rs) == \E i \in 1..Len(rs) : ~rs[i].date_ok

get_completion_patterns(rs) ==
    IF rs = <<>> THEN EmptyPatterns
    ELSE
    The({The({
        [best_categories |->
            [c \in {obs[i].category : i \in 1..Len(obs)} |->
                DoneOf(SelectSeq(obs, LAMBDA o : o.category = c))],
         best_times |->
            [p \in {get_time_period(timed[i].hour.val) : i \in 1..Len(timed)} |->
                DoneOf(SelectSeq(timed, LAMBDA o : get_time_period(o.hour.val) = p))],
         optimal_durations |->
            [c \in {completed[i].category : i \in 1..Len(completed)} |->
                The({Force([i \in 1..Len(sel) |-> sel[i].duration]) :
                     sel \in {SelectSeq(completed, LAMBDA o : o.category = c)}})],
         success_sequences |-> <<>>,
         completion_by_weekday |->
            [d \in {obs[i].weekday : i \in 1..Len(obs)} |->
                DoneOf(SelectSeq(obs, LAMBDA o : o.weekday = d))],
         total_completion_rate |->
            IF Len(obs) > 0 THEN R(Len(completed), Len(obs)) ELSE Zero] :
        timed \in {SelectSeq(obs, LAMBDA o : o.hour.ok)},
        completed \in {SelectSeq(obs, LAMBDA o : o.done)}}) :
      obs \in {Observations(rs)}})

\* sum(completions) / len(completions)
SuccessRate(completions) ==
    The({R(Cardinality({i \in 1..Len(v) : v[i]}), Len(v)) : v \in {completions}})

\* the keys of best_categories, completion_by_weekday and optimal_durations
\* in the order the dicts got them
CategoryOrder(rs) ==
    The({FirstOccurrences([i \in 1..Len(obs) |-> obs[i].category]) :
         obs \in {Observations(rs)}})

WeekdayOrder(rs) ==
    The({FirstOccurrences([i \in 1..Len(obs) |-> obs[i].weekday]) :
         obs \in {Observations(rs)}})

DurationOrder(rs) ==
    The({FirstOccurrences([i \in 1..Len(completed) |-> completed[i].category]) :
         completed \in {SelectSeq(Observations(rs), LAMBDA o : o.done)}})

\* the time periods of best_times, in the order the dict got its keys
BestTimesOrder(rs) ==
    The({FirstOccurrences([i \in 1..Len(timed) |-> get_time_period(timed[i].hour.val)]) :
         timed \in {SelectSeq(Observations(rs), LAMBDA o : o.hour.ok)}})

\* max(d, key=d.get) and min(d, key=d.get) over the keys in order, rate the
\* list of their values: the first key of the largest (smallest) value
FirstMax(keys, rate) ==
    The({ks[CHOOSE i \in 1..Len(ks) :
                /\ \A j \in 1..Len(ks) : RLe(rs[j], rs[i])
                /\ \A j \in 1..(i - 1) : RLt(rs[j], rs[i])] :
         ks \in {keys}, rs \in {rate}})

FirstMin(keys, rate) ==
    The({ks[CHOOSE i \in 1..Len(ks) :
                /\ \A j \in 1..Len(ks) : RGe(rs[j], rs[i])
                /\ \A j \in 1..(i - 1) : RGt(rs[j], rs[i])] :
         ks \in {keys}, rs \in {rate}})


-----------------------------------------------------------------------------
(* The seven analyses of the wellness profile                              *)

\* completion_energy * energy_weight of one task (the samples of its hour)
EnergySample(task) ==
    LET completion_energy == IF Completed(task) THEN One ELSE R(3, 10)
        hours == R(task.duration, 60)
        energy_weight == IF task.category \in {"Work", "Exercise"}
                         THEN RMul(hours, R(3, 2)) ELSE hours
    IN  RMul(completion_energy, energy_weight)

AllTasks(rs) == Concat([i \in 1..Len(rs) |-> rs[i].tasks])

\* hourly_energy: the mean of each hour's samples, 0.5 without samples;
\* the entry of hour h is element h + 1
HourlyEnergy(rs) ==
    The({The({Force([k \in 1..24 |->
                  The({IF mine = <<>> THEN R(1, 2)
                       ELSE Mean([i \in 1..Len(mine) |-> mine[i].sample]) :
                       mine \in {SelectSeq(parsed, LAMBDA x : x.hour.val = k - 1)}})]) :
              parsed \in {SelectSeq(
                  [i \in 1..Len(tasks) |->
                      [hour |-> TaskHour(tasks[i]), sample |-> EnergySample(tasks[i])]],
                  LAMBDA x : x.hour.ok)}}) :
         tasks \in {AllTasks(rs)}})

\* sorted(hourly_energy.items(), key=value, reverse=True)[:3]: a stable sort,
\* so equal values stay in hour order
PeakHours(e) ==
    The({LET rank(h) == Cardinality({g \in 0..23 : RGt(v[g + 1], v[h + 1])})
                        + Cardinality({g \in 0..23 : g < h /\ v[g + 1] = v[h + 1]})
         IN  Force([i \in 1..3 |-> CHOOSE h \in 0..23 : rank(h) = i - 1]) :
         v \in {e}})

\* sorted(hourly_energy.items(), key=value)[:3]
ValleyHours(e) ==
    The({LET rank(h) == Cardinality({g \in 0..23 : RLt(v[g + 1], v[h + 1])})
                        + Cardinality({g \in 0..23 : g < h /\ v[g + 1] = v[h + 1]})
         IN  Force([i \in 1..3 |-> CHOOSE h \in 0..23 : rank(h) = i - 1]) :
         v \in {e}})

determine_circadian_type(peak_hours) ==
    The({IF RLe(avg_peak_hour, RInt(10)) THEN "Morning Lark"
         ELSE IF RGe(avg_peak_hour, RInt(18)) THEN "Night Owl"
         ELSE IF RLt(RInt(10), avg_peak_hour) /\ RLt(avg_peak_hour, RInt(18))
              THEN "Mid-day Peak"
         ELSE "Variable Pattern" :
         avg_peak_hour \in {Mean([i \in 1..Len(peak_hours) |-> RInt(peak_hours[i])])}})

\* the "<weekday>_<hour>" keys of energy_data, averaged per weekday
analyze_weekday_energy(rs) ==
    The({[d \in {obs[i].weekday : i \in 1..Len(obs)} |->
             The({Mean([i \in 1..Len(mine) |-> IF mine[i].done THEN One ELSE R(3, 10)]) :
                  mine \in {SelectSeq(obs, LAMBDA o : o.weekday = d)}})] :
         obs \in {SelectSeq(Observations(rs), LAMBDA o : o.hour.ok)}})

analyze_energy_patterns(rs) ==
    The({The({[peak_energy_hours |-> peak,
               low_energy_hours |-> ValleyHours(e),
               energy_stability |-> Stdev(e),
               circadian_type |-> determine_circadian_type(peak),
               weekday_patterns |-> analyze_weekday_energy(rs)] :
              peak \in {PeakHours(e)}}) :
         e \in {HourlyEnergy(rs)}})

\* daily_stress of one routine
DailyStress(r) ==
    The({SumSeq([j \in 1..Len(tasks) |->
             IF tasks[j].category = "Work" /\ tasks[j].duration > 120 THEN 2
             ELSE IF ContainsAny(Lower(tasks[j].name), PainWords) THEN 1
             ELSE 0]) :
         tasks \in {r.tasks}})

\* daily_recovery of one routine
DailyRecovery(r) ==
    The({Cardinality({j \in 1..Len(tasks) :
             /\ \/ tasks[j].category \in {"Personal", "Evening"}
                \/ Contains(Lower(tasks[j].name), StretchWord)
             /\ Completed(tasks[j])}) :
         tasks \in {r.tasks}})

\* the raw quotient, without the clamp
ResilienceScoreRaw(avg_recovery, avg_stress) ==
    RDiv(RAdd(RSub(avg_recovery, avg_stress), RInt(3)), RInt(6))

\* max(0, min(1, (avg_recovery - avg_stress + 3) / 6))
ResilienceScore(avg_recovery, avg_stress) ==
    RMax(Zero, RMin(One, RDiv(RAdd(RSub(avg_recovery, avg_stress), RInt(3)), RInt(6))))

calculate_stress_resilience(rs) ==
    The({[resilience_score |-> ResilienceScore(avg_recovery, avg_stress),
          stress_level |-> IF RGt(avg_stress, RInt(3)) THEN "High"
                           ELSE IF RGt(avg_stress, One) THEN "Moderate" ELSE "Low",
          recovery_capacity |-> IF RGt(avg_recovery, RInt(3)) THEN "Excellent"
                                ELSE IF RGt(avg_recovery, One) THEN "Good"
                                ELSE "Needs Improvement",
          stress_recovery_ratio |-> RDiv(avg_recovery, RMax(avg_stress, One))] :
         avg_stress \in
             {IF rs = <<>> THEN Zero
              ELSE Mean([i \in 1..Len(rs) |-> RInt(DailyStress(rs[i]))])},
         avg_recovery \in
             {IF rs = <<>> THEN Zero
              ELSE Mean([i \in 1..Len(rs) |-> RInt(DailyRecovery(rs[i]))])}})

\* the routines a history needs before consistency is measured
MinConsistencyRoutines == 3

\* the completion rates a trend needs
MinTrendPoints == 5

\* 1 - (stdev(rates) if len(rates) > 1 else 0)
ConsistencyScore(completion_rates) ==
    The({IF Len(rates) > 1 THEN OneMinus(Stdev(rates)) ELSE SurdOf(One) :
         rates \in {completion_rates}})

\* a trend that compares with all the rates before the last three (a
\* mutation)
ConsistencyTrendWholePrefix(completion_rates) ==
    The({LET n == Len(rates)
         IN  IF n >= MinTrendPoints
             THEN The({IF RGt(recent_avg, RAdd(earlier_avg, R(1, 10))) THEN "improving"
                       ELSE IF RLt(recent_avg, RSub(earlier_avg, R(1, 10))) THEN "declining"
                       ELSE "stable" :
                       recent_avg \in {Mean(LastK(rates, 3))},
                       earlier_avg \in {Mean(SubSeq(rates, 1, n - 3))}})
             ELSE "establishing" :
         rates \in {completion_rates}})

\* the trend of the sorted daily completion rates
ConsistencyTrend(completion_rates) ==
    The({LET n == Len(rates)
         IN  IF n >= MinTrendPoints
             THEN The({IF RGt(recent_avg, RAdd(earlier_avg, R(1, 10))) THEN "improving"
                       ELSE IF RLt(recent_avg, RSub(earlier_avg, R(1, 10))) THEN "declining"
                       ELSE "stable" :
                       recent_avg \in {Mean(LastK(rates, 3))},
                       earlier_avg \in
                           {IF n >= 6 THEN Mean(SubSeq(rates, n - 5, n - 3))
                            ELSE Mean(SubSeq(rates, 1, n - 3))}})
             ELSE "establishing" :
         rates \in {completion_rates}})

\* a guard that measures already from two routines on
InsufficientDataBelowTwo(rs) == Len(rs) < 2

\* len(routines_data) < 3
InsufficientData(rs) == Len(rs) < MinConsistencyRoutines

measure_consistency(rs) ==
    IF InsufficientData(rs)
    THEN [score |-> SurdOf(Zero), trend |-> "insufficient_data"]
    ELSE The({The({[score |-> ConsistencyScore(completion_rates),
                    average_completion |-> Mean(completion_rates),
                    trend |-> ConsistencyTrend(completion_rates),
                    variation |-> IF Len(completion_rates) > 1
                                  THEN Stdev(completion_rates) ELSE SurdOf(Zero)] :
                   completion_rates \in
                       {Force([i \in 1..Len(sorted_routines) |->
                                  RoutineRate(sorted_routines[i])])}}) :
              sorted_routines \in {SortByDate(rs)}})

\* the need level from avg_exercise_per_day and recovery_ratio
RecoveryNeed(avg_exercise_per_day, recovery_ratio) ==
    IF RGt(avg_exercise_per_day, RInt(90)) /\ RLt(recovery_ratio, R(1, 2))
    THEN "critical"
    ELSE IF RGt(avg_exercise_per_day, RInt(60)) /\ RLt(recovery_ratio, R(4, 5))
    THEN "high"
    ELSE IF RGt(avg_exercise_per_day, RInt(30)) /\ RLt(recovery_ratio, One)
    THEN "moderate"
    ELSE "adequate"

get_recovery_recommendation(recovery_need) ==
    CASE recovery_need = "critical" ->
            "Schedule mandatory rest days and add daily stretching sessions"
      [] recovery_need = "high" ->
            "Increase recovery activities and consider lighter workout days"
      [] recovery_need = "moderate" ->
            "Add post-workout stretching and one dedicated recovery day per week"
      [] recovery_need = "adequate" -> "Maintain current recovery routine"
      [] OTHER -> "Monitor recovery needs"

assess_recovery_requirements(rs) ==
    LET total_days == Len(rs)
        exercise(r) == SelectSeq(r.tasks, LAMBDA t : t.category = "Exercise")
        daily_exercise_duration(r) ==
            The({SumSeq([j \in 1..Len(ex) |-> ex[j].duration]) : ex \in {exercise(r)}})
        done_exercise_duration(r) ==
            The({SumSeq([j \in 1..Len(done) |-> done[j].duration]) :
                 done \in {SelectSeq(exercise(r), LAMBDA t : Completed(t))}})
    IN  The({The({The({[need_level |-> recovery_need,
                        avg_exercise_duration |-> avg_exercise_per_day,
                        recovery_ratio |-> recovery_ratio,
                        high_intensity_days |-> high_intensity_days,
                        recommendation |-> get_recovery_recommendation(recovery_need)] :
                       recovery_need \in
                           {RecoveryNeed(avg_exercise_per_day, recovery_ratio)}}) :
                  avg_exercise_per_day \in
                      {IF total_days > 0 THEN R(total_exercise_duration, total_days)
                       ELSE Zero},
                  recovery_ratio \in
                      {R(recovery_activities,
                         IF high_intensity_days > 1 THEN high_intensity_days ELSE 1)}}) :
             total_exercise_duration \in
                 {SumSeq([i \in 1..Len(rs) |-> done_exercise_duration(rs[i])])},
             high_intensity_days \in
                 {Cardinality({i \in 1..Len(rs) : daily_exercise_duration(rs[i]) > 60})},
             recovery_activities \in
                 {SumSeq([i \in 1..Len(rs) |->
                      Cardinality({j \in 1..Len(rs[i].tasks) :
                          /\ ContainsAny(Lower(rs[i].tasks[j].name), RecoveryWords)
                          /\ Completed(rs[i].tasks[j])})])}})

\* the routines a history needs before a trajectory is predicted
MinTrajectoryRoutines == 5

\* the most recent routines the trajectory looks at
TrajectoryWindow == 7

\* a trajectory over the last routines in stored order, not by date
predict_wellness_trajectory_stored_order(rs) ==
    IF Len(rs) < MinTrajectoryRoutines
    THEN [prediction |-> "Insufficient data", confidence |-> Zero]
    ELSE The({The({
             LET n == Len(completion_trends)
             IN  IF n >= 3
                 THEN The({[current_performance |-> avg_recent,
                            trend_direction |->
                                IF RGt(completion_trends[n], completion_trends[1])
                                THEN "improving" ELSE "declining",
                            momentum |-> momentum,
                            confidence |-> RMin(R(9, 10), R(n, 10)),
                            predicted_next_week |->
                                RMax(Zero, RMin(One, RAdd(avg_recent, momentum))),
                            recommendations_urgency |->
                                IF RLt(avg_recent, R(3, 5)) THEN "high"
                                ELSE IF RLt(avg_recent, R(4, 5)) THEN "medium" ELSE "low"] :
                           avg_recent \in {Mean(LastK(completion_trends, 3))},
                           momentum \in
                               {RDiv(RSub(completion_trends[n], completion_trends[1]),
                                     RInt(n))}})
                 ELSE [prediction |-> "Building baseline", confidence |-> R(3, 10)] :
             completion_trends \in
                 {Force([i \in 1..Len(recent_data) |-> RoutineRate(recent_data[i])])}}) :
           recent_data \in {LastK(rs, TrajectoryWindow)}})

predict_wellness_trajectory(rs) ==
    IF Len(rs) < MinTrajectoryRoutines
    THEN [prediction |-> "Insufficient data", confidence |-> Zero]
    ELSE The({The({
             LET n == Len(completion_trends)
             IN  IF n >= 3
                 THEN The({[current_performance |-> avg_recent,
                            trend_direction |->
                                IF RGt(completion_trends[n], completion_trends[1])
                                THEN "improving" ELSE "declining",
                            momentum |-> momentum,
                            confidence |-> RMin(R(9, 10), R(n, 10)),
                            predicted_next_week |->
                                RMax(Zero, RMin(One, RAdd(avg_recent, momentum))),
                            recommendations_urgency |->
                                IF RLt(avg_recent, R(3, 5)) THEN "high"
                                ELSE IF RLt(avg_recent, R(4, 5)) THEN "medium" ELSE "low"] :
                           avg_recent \in {Mean(LastK(completion_trends, 3))},
                           momentum \in
                               {RDiv(RSub(completion_trends[n], completion_trends[1]),
                                     RInt(n))}})
                 ELSE [prediction |-> "Building baseline", confidence |-> R(3, 10)] :
             completion_trends \in
                 {Force([i \in 1..Len(recent_data) |-> RoutineRate(recent_data[i])])}}) :
           recent_data \in {LastK(SortByDate(rs), TrajectoryWindow)}})

\* the divisions by total_days raise ZeroDivisionError on an empty history
RiskFactorsRaises(rs) == Len(rs) = 0

identify_risk_factors(rs) ==
    LET total_days == Len(rs)
        pain_frequency ==
            SumSeq([i \in 1..Len(rs) |->
                Cardinality({j \in 1..Len(rs[i].tasks) :
                    ContainsAny(Lower(rs[i].tasks[j].name), PainWords)})])
        work_duration(r) ==
            The({SumSeq([j \in 1..Len(work) |-> work[j].duration]) :
                 work \in {SelectSeq(r.tasks, LAMBDA t : t.category = "Work")}})
        overwork_days == Cardinality({i \in 1..Len(rs) : work_duration(rs[i]) > 480})
        poor_completion_days ==
            Cardinality({i \in 1..Len(rs) : RLt(RoutineRate(rs[i]), R(1, 2))})
        exercise_days ==
            Cardinality({i \in 1..Len(rs) :
                \E j \in 1..Len(rs[i].tasks) :
                    rs[i].tasks[j].category = "Exercise" /\ Completed(rs[i].tasks[j])})
    IN  (IF RGt(R(pain_frequency, total_days), R(3, 10))
         THEN <<"Chronic pain indicators detected">> ELSE <<>>)
        \o (IF RGt(R(overwork_days, total_days), R(2, 5))
            THEN <<"Excessive work hours pattern">> ELSE <<>>)
        \o (IF RGt(R(poor_completion_days, total_days), R(3, 10))
            THEN <<"Low routine adherence trend">> ELSE <<>>)
        \o (IF RLt(R(exercise_days, total_days), R(2, 5))
            THEN <<"Insufficient physical activity">> ELSE <<>>)

\* the strengths, one entry per condition that fires; stored is what
\* self.get_completion_patterns() loads, rs the history handed in
StrengthsFound(rs, stored) ==
    The({The({(IF RGt(patterns.total_completion_rate, R(4, 5))
               THEN <<"Excellent routine adherence">> ELSE <<>>)
              \o Force([i \in 1..Len(strong) |->
                    "Strong " \o Text(Lower(Chars(strong[i]))) \o " routine consistency"])
              \o (IF SurdGt(measure_consistency(rs).score, R(4, 5))
                  THEN <<"Highly consistent daily patterns">> ELSE <<>>)
              \o (IF assess_recovery_requirements(rs).need_level = "adequate"
                  THEN <<"Well-balanced activity and recovery">> ELSE <<>>) :
              strong \in
                  {SelectSeq(CategoryOrder(stored),
                       LAMBDA c : RGt(SuccessRate(patterns.best_categories[c]),
                                      R(17, 20)))}}) :
         patterns \in {get_completion_patterns(stored)}})

\* a return without the fallback
identify_strengths_bare(rs, stored) == StrengthsFound(rs, stored)

identify_strengths(rs, stored) ==
    The({IF strengths # <<>> THEN strengths
         ELSE <<"Building healthy habits foundation">> :
         strengths \in {StrengthsFound(rs, stored)}})

\* generate_wellness_profile on a history that was loaded non-empty
BuildProfile(rs, stored) ==
    [energy_patterns |-> analyze_energy_patterns(rs),
     stress_resilience |-> calculate_stress_resilience(rs),
     consistency_score |-> measure_consistency(rs),
     recovery_needs |-> assess_recovery_requirements(rs),
     wellness_trajectory |-> predict_wellness_trajectory(rs),
     risk_factors |-> identify_risk_factors(rs),
     strengths |-> identify_strengths(rs, stored)]


-----------------------------------------------------------------------------
(* Workout recommendations                                                 *)

\* a WorkoutPlan dict, as far as the engine reads it
Workout(name, target_muscle_groups, difficulty, estimated_duration) ==
    [name |-> name, target_muscle_groups |-> target_muscle_groups,
     difficulty |-> difficulty, estimated_duration |-> estimated_duration]

\* the recommendations returned at most
MaxWorkoutRecommendations == 3

\* the names of the completed Exercise tasks of a routine
CompletedExerciseNames(r) ==
    The({Force([j \in 1..Len(done) |-> done[j].name]) :
         done \in {SelectSeq(r.tasks, LAMBDA t : t.category = "Exercise" /\ Completed(t))}})

get_recent_workouts(rs, td, days) ==
    Concat([i \in 1..Len(rs) |->
        IF rs[i].date >= td - days THEN CompletedExerciseNames(rs[i]) ELSE <<>>])

\* <<>> is None, <<d>> the date of the last completed workout
get_last_workout_date(rs) ==
    The({IF dates = {} THEN <<>>
         ELSE <<CHOOSE d \in dates : \A e \in dates : e <= d>> :
         dates \in {{rs[i].date :
                        i \in {k \in 1..Len(rs) : CompletedExerciseNames(rs[k]) # <<>>}}}})

MuscleKeywords ==
    [Chest |-> {Chars("chest"), Chars("push"), Chars("press")},
     Back |-> {Chars("back"), Chars("pull"), Chars("row")},
     Legs |-> {Chars("leg"), Chars("squat"), Chars("lunge")},
     Arms |-> {Chars("arm"), Chars("bicep"), Chars("tricep")},
     Core |-> {Chars("core"), Chars("abs"), Chars("plank")},
     Shoulders |-> {Chars("shoulder"), Chars("overhead")},
     Cardio |-> {Chars("cardio"), Chars("run"), Chars("bike")},
     Wrists |-> {Chars("wrist"), Chars("relief"), Chars("pain")}]

\* the muscle groups worked recently, with their counts
analyze_muscle_group_usage(recent_workouts) ==
    The({LET hits(g) == Cardinality({i \in 1..Len(lowered) :
                                        ContainsAny(lowered[i], MuscleKeywords[g])})
         IN  [g \in {k \in DOMAIN MuscleKeywords : hits(k) > 0} |-> hits(g)] :
         lowered \in {Force([i \in 1..Len(recent_workouts) |-> Lower(recent_workouts[i])])}})

PainLevelWords == PainWords \cup {StretchWord}

\* a pain assessment that does not look for "wrist" (a mutation)
assess_pain_level_without_wrist(rs, td) ==
    The({LET total_recent_tasks == Len(recent)
         IN  IF total_recent_tasks = 0 THEN "unknown"
             ELSE The({IF RGt(pain_ratio, R(3, 10)) THEN "high"
                       ELSE IF RGt(pain_ratio, R(3, 20)) THEN "moderate"
                       ELSE "low" :
                       pain_ratio \in
                           {R(Cardinality({i \in 1..Len(recent) :
                                  ContainsAny(Lower(recent[i].name),
                                              PainLevelWords \ {<<"w","r","i","s","t">>})}),
                              total_recent_tasks)}}) :
         recent \in {Concat([i \in 1..Len(rs) |->
                         IF rs[i].date >= td - 3 THEN rs[i].tasks ELSE <<>>])}})

assess_pain_level(rs, td) ==
    The({LET total_recent_tasks == Len(recent)
         IN  IF total_recent_tasks = 0 THEN "unknown"
             ELSE The({IF RGt(pain_ratio, R(3, 10)) THEN "high"
                       ELSE IF RGt(pain_ratio, R(3, 20)) THEN "moderate"
                       ELSE "low" :
                       pain_ratio \in
                           {R(Cardinality({i \in 1..Len(recent) :
                                  ContainsAny(Lower(recent[i].name), PainLevelWords)}),
                              total_recent_tasks)}}) :
         recent \in {Concat([i \in 1..Len(rs) |->
                         IF rs[i].date >= td - 3 THEN rs[i].tasks ELSE <<>>])}})

\* set(workout.target_muscle_groups)
WorkoutMuscles(workout) ==
    {workout.target_muscle_groups[i] : i \in 1..Len(workout.target_muscle_groups)}

\* a score that takes one day of rest for a full recovery
WorkoutRawScoreRestedAfterOneDay(workout, days_since_workout, muscle_groups, pain_level) ==
    LET recovery == IF days_since_workout = 0 THEN R(1, 5)
                    ELSE IF days_since_workout = 1 THEN One
                    ELSE One
        pain == IF pain_level = "high"
                THEN (IF "Wrists" \in WorkoutMuscles(workout)
                         \/ workout.difficulty = "Beginner"
                      THEN R(13, 10) ELSE R(3, 10))
                ELSE IF pain_level = "moderate" /\ workout.difficulty = "Advanced"
                THEN R(7, 10)
                ELSE One
        shared == WorkoutMuscles(workout) \cap DOMAIN muscle_groups
        balance == IF shared = {} THEN R(7, 5)
                   ELSE IF Cardinality(shared) = 1 THEN R(11, 10)
                   ELSE R(4, 5)
        length == IF workout.estimated_duration <= 30 THEN R(6, 5)
                  ELSE IF workout.estimated_duration > 60 THEN R(9, 10)
                  ELSE One
    IN  RMul(RMul(RMul(RMul(R(1, 2), recovery), pain), balance), length)

\* the score before the cap: the base 0.5 times the four factors
WorkoutRawScore(workout, days_since_workout, muscle_groups, pain_level) ==
    LET recovery == IF days_since_workout = 0 THEN R(1, 5)
                    ELSE IF days_since_workout = 1 THEN R(2, 5)
                    ELSE One
        pain == IF pain_level = "high"
                THEN (IF "Wrists" \in WorkoutMuscles(workout)
                         \/ workout.difficulty = "Beginner"
                      THEN R(13, 10) ELSE R(3, 10))
                ELSE IF pain_level = "moderate" /\ workout.difficulty = "Advanced"
                THEN R(7, 10)
                ELSE One
        shared == WorkoutMuscles(workout) \cap DOMAIN muscle_groups
        balance == IF shared = {} THEN R(7, 5)
                   ELSE IF Cardinality(shared) = 1 THEN R(11, 10)
                   ELSE R(4, 5)
        length == IF workout.estimated_duration <= 30 THEN R(6, 5)
                  ELSE IF workout.estimated_duration > 60 THEN R(9, 10)
                  ELSE One
    IN  RMul(RMul(RMul(RMul(R(1, 2), recovery), pain), balance), length)

\* a scorer that returns the product as it is
score_workout_uncapped(workout, days_since_workout, muscle_groups, pain_level) ==
    WorkoutRawScore(workout, days_since_workout, muscle_groups, pain_level)

\* return min(score, 1.0)
score_workout_recommendation(workout, days_since_workout, muscle_groups, pain_level) ==
    RMin(WorkoutRawScore(workout, days_since_workout, muscle_groups, pain_level), One)

generate_workout_reason(workout, days_since_workout, muscle_groups, pain_level) ==
    The({IF reasons # <<>>
         THEN Chars("Perfect because it ") \o Join(reasons, Chars(", "))
         ELSE Chars("Good fit for your routine") :
         reasons \in
            {(IF days_since_workout >= 2
              THEN <<Chars(ToString(days_since_workout)) \o Chars(" days since last workout")>>
              ELSE <<>>)
             \o (IF pain_level = "high" /\ "Wrists" \in WorkoutMuscles(workout)
                 THEN <<Chars("includes wrist-friendly exercises")>> ELSE <<>>)
             \o (IF WorkoutMuscles(workout) \cap DOMAIN muscle_groups = {}
                 THEN <<Chars("targets fresh muscle groups")>> ELSE <<>>)
             \o (IF workout.estimated_duration <= 30
                 THEN <<Chars("quick and manageable duration")>> ELSE <<>>)
             \o (IF workout.difficulty = "Beginner" /\ pain_level \in {"high", "moderate"}
                 THEN <<Chars("gentle intensity for recovery")>> ELSE <<>>)}})

\* max(time_success, key=time_success.get)
BestTimePeriod(rs) ==
    The({FirstMax(periods, [i \in 1..Len(periods) |-> SuccessRate(best_times[periods[i]])]) :
         periods \in {BestTimesOrder(rs)},
         best_times \in {get_completion_patterns(rs).best_times}})

suggest_workout_time(stored) ==
    IF stored = <<>> \/ BestTimesOrder(stored) = <<>> THEN "06:30"
    ELSE The({CASE best_time_period = "Early Morning" -> "06:30"
                [] best_time_period = "Morning" -> "10:00"
                [] best_time_period = "Afternoon" -> "14:00"
                [] best_time_period = "Evening" -> "17:00"
                [] best_time_period = "Night" -> "20:00"
                [] OTHER -> "06:30" :
              best_time_period \in {BestTimePeriod(stored)}})

\* recommendations.sort(key=lambda x: x['score'], reverse=True): stable, so
\* equal scores keep their order
SortByScore(recs) ==
    The({LET rank(i) == Cardinality({j \in 1..Len(v) :
                            \/ RGt(v[j].score, v[i].score)
                            \/ v[j].score = v[i].score /\ j < i})
         IN  Force([k \in 1..Len(v) |-> v[CHOOSE i \in 1..Len(v) : rank(i) = k - 1]]) :
         v \in {recs}})

\* strptime in _get_recent_workouts raises, once the catalog is not empty
WorkoutsRaises(ws, rs) == ws # <<>> /\ PatternsRaises(rs)

recommend_workouts(ws, rs, td) ==
    IF ws = <<>> THEN <<>>
    ELSE
    The({The({
        LET scored == [i \in 1..Len(ws) |->
                The({[type |-> "workout",
                      workout |-> ws[i],
                      score |-> score,
                      reason |-> generate_workout_reason(
                                     ws[i], days_since_workout, muscle_group_frequency,
                                     pain_level),
                      best_time |-> best_time,
                      priority |-> IF RGt(score, R(4, 5)) THEN "high"
                                   ELSE IF RGt(score, R(7, 10)) THEN "medium" ELSE "low"] :
                     score \in {score_workout_recommendation(
                                    ws[i], days_since_workout, muscle_group_frequency,
                                    pain_level)}})]
            recommendations == SelectSeq(scored, LAMBDA x : RGt(x.score, R(1, 2)))
        IN  FirstK(SortByScore(recommendations), MaxWorkoutRecommendations) :
        days_since_workout \in
            {IF last_workout_date # <<>> THEN td - last_workout_date[1] ELSE 7},
        muscle_group_frequency \in {analyze_muscle_group_usage(recent_workouts)}}) :
      recent_workouts \in {get_recent_workouts(rs, td, 7)},
      last_workout_date \in {get_last_workout_date(rs)},
      pain_level \in {assess_pain_level(rs, td)},
      best_time \in {suggest_workout_time(rs)}})

-----------------------------------------------------------------------------
(* Meal recommendations                                                    *)

\* a Meal dict and a DietPlan dict, as far as the engine reads them
Meal(name, calories, protein, carbs, fat, ingredients) ==
    [name |-> name, calories |-> calories, protein |-> protein, carbs |-> carbs,
     fat |-> fat, ingredients |-> ingredients]

Diet(name, meals) == [name |-> name, meals |-> meals]

\* the recommendations returned at most, and the favourites kept
MaxMealRecommendations == 4
MaxFavorites == 10

MealWords == {Chars("breakfast"), Chars("lunch"), Chars("dinner"), Chars("meal")}

\* task['description'] or task['name'] of the meal tasks of the last days
get_recent_meals(rs, td, days) ==
    Concat([i \in 1..Len(rs) |->
        IF rs[i].date >= td - days
        THEN The({Force([j \in 1..Len(meal_tasks) |->
                      IF meal_tasks[j].description # <<>> THEN meal_tasks[j].description
                      ELSE meal_tasks[j].name]) :
                  meal_tasks \in {SelectSeq(rs[i].tasks,
                                      LAMBDA t : ContainsAny(Lower(t.name), MealWords))}})
        ELSE <<>>])

\* all meals of the catalog, in order
AllMeals(ds) == Concat([i \in 1..Len(ds) |-> ds[i].meals])

\* [ing.lower() for ing in meal.ingredients]
MealIngredients(meal) ==
    Force([i \in 1..Len(meal.ingredients) |-> Lower(meal.ingredients[i])])

\* ingredient_frequency.most_common(10): by count, first counted first
FavoriteIngredients(ds) ==
    The({The({The({
        LET rank(k) == Cardinality({j \in 1..Len(keys) :
                           \/ count[j] > count[k]
                           \/ count[j] = count[k] /\ j < k})
        IN  FirstK([r \in 1..Len(keys) |->
                       keys[CHOOSE k \in 1..Len(keys) : rank(k) = r - 1]],
                   MaxFavorites) :
        count \in {Force([k \in 1..Len(keys) |->
                      Cardinality({i \in 1..Len(used) : used[i] = keys[k]})])}}) :
      keys \in {FirstOccurrences(used)}}) :
    used \in {The({Concat([i \in 1..Len(meals) |-> MealIngredients(meals[i])]) :
                   meals \in {AllMeals(ds)}})}})

\* <<>> is the empty dict returned for a catalog without meals
analyze_nutritional_patterns(ds) ==
    The({LET meal_count == Len(meals)
         IN  IF meal_count = 0 THEN <<>>
             ELSE [avg_calories |->
                      R(SumSeq([i \in 1..meal_count |-> meals[i].calories]), meal_count),
                   avg_protein |->
                      R(SumSeq([i \in 1..meal_count |-> meals[i].protein]), meal_count),
                   avg_carbs |->
                      R(SumSeq([i \in 1..meal_count |-> meals[i].carbs]), meal_count),
                   avg_fat |->
                      R(SumSeq([i \in 1..meal_count |-> meals[i].fat]), meal_count),
                   favorite_ingredients |-> FavoriteIngredients(ds)] :
         meals \in {AllMeals(ds)}})

get_current_meal_time(h) ==
    IF 5 <= h /\ h < 10 THEN "Breakfast"
    ELSE IF 11 <= h /\ h < 15 THEN "Lunch"
    ELSE IF 17 <= h /\ h < 21 THEN "Dinner"
    ELSE "Snack"

\* the words of the recent meal texts: recent_meal.lower().split()
RecentIngredients(recent_meals) ==
    Concat([i \in 1..Len(recent_meals) |-> Split(Lower(recent_meals[i]))])

\* the ingredients of the meal found inside a recent word, and the others
OverlapCount(meal, recent_meals) ==
    The({Cardinality({i \in 1..Len(meal_ingredients) :
             \E k \in 1..Len(recent_ingredients) :
                 Contains(recent_ingredients[k], meal_ingredients[i])}) :
         recent_ingredients \in {RecentIngredients(recent_meals)},
         meal_ingredients \in {MealIngredients(meal)}})

\* the ingredients of the meal that are favourites, in order
FavoriteOverlap(meal, preferences) ==
    The({SelectSeq(MealIngredients(meal),
                   LAMBDA ing : \E k \in 1..Len(favorites) : favorites[k] = ing) :
         favorites \in {preferences.favorite_ingredients}})

\* abs(meal.calories - preferences.get('avg_calories', meal.calories))
CalorieDiff(meal, preferences) ==
    RAbs(RSub(RInt(meal.calories), preferences.avg_calories))

BreakfastWords == {Chars("breakfast"), Chars("morning"), Chars("oatmeal"), Chars("yogurt")}
LunchWords == {Chars("lunch"), Chars("wrap"), Chars("salad"), Chars("soup")}
DinnerWords == {Chars("dinner"), Chars("pasta"), Chars("bowl"), Chars("recovery")}

\* the score before the cap: the base 0.5 times the four factors
MealRawScore(meal, recent_meals, preferences, meal_time) ==
    LET variety == The({IF overlap > 0 THEN R(5 - overlap, 5) ELSE One :
                        overlap \in {OverlapCount(meal, recent_meals)}})
        favorite == IF preferences # <<>>
                    THEN R(10 + Len(FavoriteOverlap(meal, preferences)), 10)
                    ELSE One
        fit == IF preferences = <<>> THEN One
               ELSE The({IF RLt(calorie_diff, RInt(100)) THEN R(6, 5)
                         ELSE IF RGt(calorie_diff, RInt(200)) THEN R(4, 5)
                         ELSE One :
                         calorie_diff \in {CalorieDiff(meal, preferences)}})
        timely == \E meal_name_lower \in {Lower(meal.name)} :
                     \/ meal_time = "Breakfast"
                        /\ ContainsAny(meal_name_lower, BreakfastWords)
                     \/ meal_time = "Lunch" /\ ContainsAny(meal_name_lower, LunchWords)
                     \/ meal_time = "Dinner" /\ ContainsAny(meal_name_lower, DinnerWords)
    IN  RMul(RMul(RMul(RMul(R(1, 2), variety), favorite), fit),
             IF timely THEN R(13, 10) ELSE One)

\* a scorer that returns the product as it is
score_meal_uncapped(meal, recent_meals, preferences, meal_time) ==
    MealRawScore(meal, recent_meals, preferences, meal_time)

\* return min(score, 1.0)
score_meal_recommendation(meal, recent_meals, preferences, meal_time) ==
    RMin(MealRawScore(meal, recent_meals, preferences, meal_time), One)

generate_meal_reason(meal, recent_meals, preferences, meal_time) ==
    The({IF reasons # <<>>
         THEN Chars("Great choice - ") \o Join(reasons, Chars(", "))
         ELSE Chars("Nutritious and balanced option") :
         reasons \in
            {The({IF favorite_overlap # <<>>
                  THEN <<Chars("includes your favorites: ")
                         \o Join(FirstK(favorite_overlap, 2), Chars(", "))>>
                  ELSE <<>> :
                  favorite_overlap \in
                      {IF preferences # <<>> THEN FavoriteOverlap(meal, preferences)
                       ELSE <<>>}})
             \o (IF preferences # <<>> /\ RLt(CalorieDiff(meal, preferences), RInt(50))
                 THEN <<Chars("perfect calorie match")>> ELSE <<>>)
             \o (IF Len(meal.ingredients) - OverlapCount(meal, recent_meals) >= 2
                 THEN <<Chars("adds variety to your week")>> ELSE <<>>)
             \o (IF Contains(Lower(meal.name), Lower(Chars(meal_time)))
                 THEN <<Chars("perfect for ") \o Lower(Chars(meal_time))>> ELSE <<>>)}})

\* task['description'] raises KeyError on a meal task of the last `days`
\* days that carries no such key
DescriptionRaises(rs, td, days) ==
    \E i \in 1..Len(rs) :
        /\ rs[i].date >= td - days
        /\ \E j \in 1..Len(rs[i].tasks) :
               /\ ContainsAny(Lower(rs[i].tasks[j].name), MealWords)
               /\ "description" \notin DOMAIN rs[i].tasks[j]

\* strptime in _get_recent_meals raises, once the catalog is not empty, and
\* so does the lookup of a missing description
MealsRaises(ds, rs, td) ==
    ds # <<>> /\ (PatternsRaises(rs) \/ DescriptionRaises(rs, td, 7))

recommend_meals(ds, rs, td, h) ==
    IF ds = <<>> THEN <<>>
    ELSE
    The({
        LET scored == [i \in 1..Len(all_meals) |->
                The({[type |-> "meal",
                      meal |-> all_meals[i],
                      score |-> score,
                      reason |-> generate_meal_reason(
                                     all_meals[i], recent_meals, nutritional_preferences,
                                     time_of_day),
                      meal_time |-> time_of_day,
                      priority |-> IF RGt(score, R(4, 5)) THEN "high"
                                   ELSE IF RGt(score, R(3, 5)) THEN "medium" ELSE "low"] :
                     score \in {score_meal_recommendation(
                                    all_meals[i], recent_meals, nutritional_preferences,
                                    time_of_day)}})]
            recommendations == SelectSeq(scored, LAMBDA x : RGt(x.score, R(2, 5)))
        IN  FirstK(SortByScore(recommendations), MaxMealRecommendations) :
        recent_meals \in {get_recent_meals(rs, td, 7)},
        nutritional_preferences \in {analyze_nutritional_patterns(ds)},
        time_of_day \in {get_current_meal_time(h)},
        all_meals \in {AllMeals(ds)}})

-----------------------------------------------------------------------------
(* Return values: what a call returned, or that it raised                  *)

Returned(v) == [raised |-> FALSE, val |-> v]
Raised == [raised |-> TRUE, val |-> <<>>]
NoResult == [raised |-> FALSE, val |-> <<>>]

\* a profile-builder that keeps a profile without its strengths (a mutation)
generate_wellness_profile_keeping_less(m, stored) ==
    IF m # <<>> THEN [ret |-> Returned(m[1]), memo |-> m]
    ELSE IF stored = <<>> THEN [ret |-> Returned(<<>>), memo |-> m]
    ELSE IF PatternsRaises(stored) THEN [ret |-> Raised, memo |-> m]
    ELSE The({[ret |-> Returned(profile),
               memo |-> <<[profile EXCEPT !.strengths = <<>>]>>] :
              profile \in {BuildProfile(stored, stored)}})

\* a profile-builder that reads the history on every call (a mutation)
generate_wellness_profile_unmemoized(m, stored) ==
    IF stored = <<>> THEN [ret |-> Returned(<<>>), memo |-> m]
    ELSE IF PatternsRaises(stored) THEN [ret |-> Raised, memo |-> m]
    ELSE The({[ret |-> Returned(profile), memo |-> <<profile>>] :
              profile \in {BuildProfile(stored, stored)}})

\* a profile-builder without the guard on the empty history
generate_wellness_profile_unguarded(m, stored) ==
    IF m # <<>> THEN [ret |-> Returned(m[1]), memo |-> m]
    ELSE IF PatternsRaises(stored) \/ RiskFactorsRaises(stored)
    THEN [ret |-> Raised, memo |-> m]
    ELSE The({[ret |-> Returned(profile), memo |-> <<profile>>] :
              profile \in {BuildProfile(stored, stored)}})

\* SmartRecommendationsEngine.generate_wellness_profile on an instance whose
\* _wellness_profile is m (<<>> is None): the value returned and the memo left
generate_wellness_profile(m, stored) ==
    IF m # <<>> THEN [ret |-> Returned(m[1]), memo |-> m]
    ELSE IF stored = <<>> THEN [ret |-> Returned(<<>>), memo |-> m]
    ELSE IF PatternsRaises(stored) THEN [ret |-> Raised, memo |-> m]
    ELSE The({[ret |-> Returned(profile), memo |-> <<profile>>] :
              profile \in {BuildProfile(stored, stored)}})

-----------------------------------------------------------------------------
(* Suggestions, interventions and the dashboard summary                    *)

suggest_routine_optimizations(rs) ==
    The({
        (IF categories = <<>> THEN <<>>
         ELSE The({
                LET worst_rate == SuccessRate(patterns.best_categories[worst_category])
                IN  IF RLt(worst_rate, R(3, 5))
                    THEN <<[type |-> "category_optimization",
                            title |-> "Reduce " \o worst_category \o " Tasks",
                            description |->
                                "You complete only " \o PercentText(worst_rate) \o " of "
                                \o worst_category \o " tasks. Consider moving some to "
                                \o best_category \o " time slots.",
                            action |-> "Move " \o worst_category \o " tasks to "
                                       \o best_category \o " time periods",
                            priority |-> "high"]>>
                    ELSE <<>> :
                best_category \in
                    {FirstMax(categories, [i \in 1..Len(categories) |->
                         SuccessRate(patterns.best_categories[categories[i]])])},
                worst_category \in
                    {FirstMin(categories, [i \in 1..Len(categories) |->
                         SuccessRate(patterns.best_categories[categories[i]])])}}))
        \o (IF periods = <<>> THEN <<>>
            ELSE The({
                   LET best_time_rate == SuccessRate(patterns.best_times[best_time])
                   IN  IF RGt(best_time_rate, R(4, 5))
                       THEN <<[type |-> "timing_optimization",
                               title |-> "Leverage Your " \o best_time \o " Productivity",
                               description |->
                                   "You have " \o PercentText(best_time_rate)
                                   \o " completion rate during " \o best_time
                                   \o ". Schedule important tasks here.",
                               action |-> "Move critical tasks to " \o best_time,
                               priority |-> "medium"]>>
                       ELSE <<>> :
                   best_time \in
                       {FirstMax(periods, [i \in 1..Len(periods) |->
                            SuccessRate(patterns.best_times[periods[i]])])}}))
        \o Force([i \in 1..Len(lasting) |->
               The({[type |-> "duration_optimization",
                     title |-> "Optimize " \o lasting[i] \o " Duration",
                     description |->
                         "Your most successful " \o lasting[i] \o " tasks average "
                         \o avg_duration \o " minutes.",
                     action |-> "Set " \o lasting[i] \o " tasks to ~"
                                \o avg_duration \o " minutes",
                     priority |-> "low"] :
                    avg_duration \in
                        {RoundedText(Mean(
                            [k \in 1..Len(patterns.optimal_durations[lasting[i]]) |->
                                RInt(patterns.optimal_durations[lasting[i]][k])]))}})]) :
        patterns \in {get_completion_patterns(rs)},
        categories \in {CategoryOrder(rs)},
        periods \in {BestTimesOrder(rs)},
        lasting \in
            {SelectSeq(DurationOrder(rs),
                 LAMBDA c : Len(get_completion_patterns(rs).optimal_durations[c]) > 3)}})

suggest_optimal_scheduling(rs) ==
    The({
        IF periods = <<>> THEN <<>>
        ELSE
        The({LET best_rate == SuccessRate(patterns.best_times[best_time])
                 worst_rate == SuccessRate(patterns.best_times[worst_time])
             IN  IF RGt(RSub(best_rate, worst_rate), R(1, 5))
                 THEN <<[type |-> "schedule_optimization",
                         title |-> "Maximize Your " \o best_time \o " Peak",
                         description |->
                             "You perform " \o PercentText(best_rate) \o " better during "
                             \o best_time \o " vs " \o PercentText(worst_rate)
                             \o " during " \o worst_time \o ".",
                         action |-> "Schedule important tasks during " \o best_time,
                         time_slot |-> best_time,
                         improvement_potential |->
                             RoundedText(RMul(RSub(best_rate, worst_rate), RInt(100)))
                             \o "%",
                         priority |-> "high"]>>
                 ELSE <<>> :
             best_time \in
                 {FirstMax(periods, [i \in 1..Len(periods) |->
                      SuccessRate(patterns.best_times[periods[i]])])},
             worst_time \in
                 {FirstMin(periods, [i \in 1..Len(periods) |->
                      SuccessRate(patterns.best_times[periods[i]])])}})
        \o (IF Len(days) > 3
            THEN The({
                   LET best_day_rate == SuccessRate(patterns.completion_by_weekday[best_day])
                       worst_day_rate ==
                           SuccessRate(patterns.completion_by_weekday[worst_day])
                   IN  IF RGt(RSub(best_day_rate, worst_day_rate), R(3, 20))
                       THEN <<[type |-> "weekly_optimization",
                               title |-> "Leverage Your " \o best_day \o " Energy",
                               description |->
                                   best_day \o " is your most productive day ("
                                   \o PercentText(best_day_rate) \o " completion vs "
                                   \o PercentText(worst_day_rate) \o " on " \o worst_day
                                   \o ").",
                               action |-> "Schedule challenging tasks on " \o best_day \o "s",
                               best_day |-> best_day,
                               priority |-> "medium"]>>
                       ELSE <<>> :
                   best_day \in
                       {FirstMax(days, [i \in 1..Len(days) |->
                            SuccessRate(patterns.completion_by_weekday[days[i]])])},
                   worst_day \in
                       {FirstMin(days, [i \in 1..Len(days) |->
                            SuccessRate(patterns.completion_by_weekday[days[i]])])}})
            ELSE <<>>) :
        periods \in
            {SelectSeq(BestTimesOrder(rs),
                 LAMBDA t : Len(get_completion_patterns(rs).best_times[t]) >= 3)},
        days \in
            {SelectSeq(WeekdayOrder(rs),
                 LAMBDA d : Len(get_completion_patterns(rs).completion_by_weekday[d]) >= 2)},
        patterns \in {get_completion_patterns(rs)}})

\* the interventions in ascending order of ai_confidence
SortByConfidenceAscending(xs) ==
    The({LET rank(i) == Cardinality({j \in 1..Len(v) :
                            \/ RLt(v[j].ai_confidence, v[i].ai_confidence)
                            \/ v[j].ai_confidence = v[i].ai_confidence /\ j < i})
         IN  Force([k \in 1..Len(v) |-> v[CHOOSE i \in 1..Len(v) : rank(i) = k - 1]]) :
         v \in {xs}})

\* sorted(interventions, key=lambda x: x['ai_confidence'], reverse=True)
SortByConfidence(xs) ==
    The({LET rank(i) == Cardinality({j \in 1..Len(v) :
                            \/ RGt(v[j].ai_confidence, v[i].ai_confidence)
                            \/ v[j].ai_confidence = v[i].ai_confidence /\ j < i})
         IN  Force([k \in 1..Len(v) |-> v[CHOOSE i \in 1..Len(v) : rank(i) = k - 1]]) :
         v \in {xs}})

\* the interventions for a profile; <<>> is the empty profile.  The titles
\* are written without their leading pictograph.
Interventions(profile) ==
    The({
    IF p = <<>> THEN <<>>
    ELSE
    LET energy_data == p.energy_patterns
        stress_data == p.stress_resilience
        trajectory == p.wellness_trajectory
        peak == FirstK(energy_data.peak_energy_hours, 2)
    IN  SortByConfidence(
        (IF SurdGt(energy_data.energy_stability, R(3, 10))
         THEN <<[type |-> "energy_stabilization",
                 title |-> "Stabilize Your Energy Patterns",
                 description |->
                     "Your energy varies significantly throughout the day. You're a "
                     \o energy_data.circadian_type \o " type.",
                 action |->
                     "Schedule demanding tasks during your peak hours: "
                     \o JoinText([i \in 1..Len(peak) |-> ToString(peak[i])], ", ")
                     \o ":00",
                 ai_confidence |-> R(17, 20),
                 expected_improvement |-> "15-25% better task completion",
                 priority |-> "high"]>>
         ELSE <<>>)
        \o (IF RLt(stress_data.resilience_score, R(3, 5))
            THEN <<[type |-> "stress_management",
                    title |-> "Enhance Stress Resilience",
                    description |->
                        "AI detected " \o stress_data.stress_level
                        \o " stress levels with " \o stress_data.recovery_capacity
                        \o " recovery.",
                    action |-> "Add 15-minute mindfulness breaks between work sessions",
                    ai_confidence |-> R(39, 50),
                    expected_improvement |-> "30% improvement in completion rates",
                    priority |-> "high"]>>
            ELSE <<>>)
        \o (IF /\ "trend_direction" \in DOMAIN trajectory
               /\ trajectory.trend_direction = "declining"
            THEN <<[type |-> "trajectory_correction",
                    title |-> "Reverse Declining Performance",
                    description |->
                        "AI predicts " \o PercentText(trajectory.predicted_next_week)
                        \o " completion rate next week if current pattern continues.",
                    action |-> "Simplify routines and focus on 3 core daily habits",
                    ai_confidence |-> trajectory.confidence,
                    expected_improvement |-> "Prevent 20% further decline",
                    priority |-> "urgent"]>>
            ELSE <<>>)) :
    p \in {profile}})

\* only the most confident intervention is kept
generate_proactive_interventions_first_only(m, stored) ==
    The({IF profile.ret.raised THEN [ret |-> Raised, memo |-> profile.memo]
         ELSE [ret |-> Returned(FirstK(Interventions(profile.ret.val), 1)),
               memo |-> profile.memo] :
         profile \in {generate_wellness_profile(m, stored)}})

\* generate_proactive_interventions on an instance whose _wellness_profile
\* is m: the value returned and the memo left
generate_proactive_interventions(m, stored) ==
    The({IF profile.ret.raised THEN [ret |-> Raised, memo |-> profile.memo]
         ELSE [ret |-> Returned(Interventions(profile.ret.val)), memo |-> profile.memo] :
         profile \in {generate_wellness_profile(m, stored)}})

\* the coaching for a profile at current_hour; <<>> is the empty profile.
\* The messages are written without their leading pictograph.
Coaching(profile, current_hour) ==
    The({
    IF p = <<>>
    THEN [message |-> "Building your AI profile...", confidence |-> R(3, 10)]
    ELSE
    LET peak_hours == p.energy_patterns.peak_energy_hours
        low_hours == p.energy_patterns.low_energy_hours
        coaching ==
            IF \E i \in 1..Len(peak_hours) : peak_hours[i] = current_hour
            THEN [status |-> "peak_energy",
                  message |-> "You're in your peak energy zone! Perfect time for high-focus work or challenging exercises.",
                  action |-> "Tackle your most important task now",
                  confidence |-> R(9, 10),
                  energy_level |-> "High",
                  recommended_activity |-> "Deep work or intense workout"]
            ELSE IF \E i \in 1..Len(low_hours) : low_hours[i] = current_hour
            THEN [status |-> "low_energy",
                  message |-> "Natural low-energy period detected. Consider lighter activities or a strategic break.",
                  action |-> "Schedule recovery activities or easy tasks",
                  confidence |-> R(17, 20),
                  energy_level |-> "Low",
                  recommended_activity |->
                      "Stretching, meal prep, or administrative tasks"]
            ELSE [status |-> "moderate_energy",
                  message |-> "Moderate energy period. Good for routine tasks and steady progress.",
                  action |-> "Maintain current activity level",
                  confidence |-> R(7, 10),
                  energy_level |-> "Moderate",
                  recommended_activity |-> "Regular scheduled activities"]
    IN  IF p.stress_resilience.stress_level = "High"
        THEN coaching
             @@ [stress_alert |-> "High stress detected. Consider adding a 5-minute breathing exercise.",
                 priority_adjustment |-> "Focus on stress-relief activities"]
        ELSE coaching :
    p \in {profile}})

\* get_real_time_coaching on an instance whose _wellness_profile is m and
\* whose current_time.hour is h: the value returned and the memo left
get_real_time_coaching(m, stored, h) ==
    The({IF profile.ret.raised THEN [ret |-> Raised, memo |-> profile.memo]
         ELSE [ret |-> Returned(Coaching(profile.ret.val, h)), memo |-> profile.memo] :
         profile \in {generate_wellness_profile(m, stored)}})

MealTiming(meal_type, optimal_time, reasoning, meal_size, recommended_calories, ai_confidence) ==
    [meal_type |-> meal_type, optimal_time |-> optimal_time, reasoning |-> reasoning,
     meal_size |-> meal_size, recommended_calories |-> recommended_calories,
     ai_confidence |-> ai_confidence]

\* the meal timing for a profile; <<>> is the empty profile
AdaptiveMealTiming(profile) ==
    The({
    IF p = <<>> \/ "energy_patterns" \notin DOMAIN p THEN <<>>
    ELSE IF p.energy_patterns.circadian_type = "Morning Lark"
    THEN <<MealTiming("Breakfast", "06:30", "Early risers need substantial morning fuel",
                      "Large", 500, R(17, 20)),
           MealTiming("Lunch", "12:00", "Peak metabolism during mid-day",
                      "Medium", 400, R(4, 5)),
           MealTiming("Dinner", "18:00", "Earlier dinner for better sleep",
                      "Medium", 450, R(9, 10))>>
    ELSE IF p.energy_patterns.circadian_type = "Night Owl"
    THEN <<MealTiming("Breakfast", "08:30",
                      "Later start aligns with delayed circadian rhythm",
                      "Medium", 350, R(4, 5)),
           MealTiming("Lunch", "13:30", "Shifted metabolism peak",
                      "Large", 550, R(17, 20)),
           MealTiming("Dinner", "19:30", "Later dinner works with night owl patterns",
                      "Medium", 400, R(4, 5))>>
    ELSE <<>> :
    p \in {profile}})

\* generate_adaptive_meal_timing on an instance whose _wellness_profile is m
generate_adaptive_meal_timing(m, stored) ==
    The({IF profile.ret.raised THEN [ret |-> Raised, memo |-> profile.memo]
         ELSE [ret |-> Returned(AdaptiveMealTiming(profile.ret.val)),
               memo |-> profile.memo] :
         profile \in {generate_wellness_profile(m, stored)}})

\* the items whose priority is counted as high (a mutation: the meal
\* recommendations are counted too)
HighPriorityItemsWithMeals(routine_suggestions, workout_recommendations, meal_recommendations, schedule_suggestions) ==
    routine_suggestions \o workout_recommendations \o meal_recommendations
    \o schedule_suggestions

\* routine_suggestions + workout_recommendations + schedule_suggestions
HighPriorityItems(routine_suggestions, workout_recommendations, meal_recommendations, schedule_suggestions) ==
    routine_suggestions \o workout_recommendations \o schedule_suggestions

\* the items of xs whose priority is p
PriorityCount(xs, p) ==
    The({Cardinality({i \in 1..Len(v) : v[i].priority = p}) : v \in {xs}})

\* the default, and min(0.95, max(0.3, routines_count / 10)) with a profile
AiConfidence(wellness_profile, routines_count) ==
    IF wellness_profile # <<>>
    THEN RMin(R(19, 20), RMax(R(3, 10), R(routines_count, 10)))
    ELSE R(1, 2)

AiStatus(ai_confidence) ==
    IF RLt(ai_confidence, R(1, 2)) THEN "Learning"
    ELSE IF RLt(ai_confidence, R(7, 10)) THEN "Analyzing"
    ELSE IF RLt(ai_confidence, R(9, 10)) THEN "Optimizing"
    ELSE "Mastered"

\* one of the calls of get_recommendation_summary raises
SummaryRaises(rs, ws, ds, td) ==
    \/ PatternsRaises(rs)
    \/ WorkoutsRaises(ws, rs)
    \/ MealsRaises(ds, rs, td)

\* get_recommendation_summary(): one engine constructed at day td, hour h
get_recommendation_summary(rs, ws, ds, td, h) ==
    The({The({
        LET proactive_interventions == interventions.ret.val
            ai_confidence == AiConfidence(wellness_profile, Len(rs))
        IN  [total |-> Len(routine_suggestions) + Len(workout_recommendations)
                       + Len(meal_recommendations) + Len(schedule_suggestions)
                       + Len(proactive_interventions),
             routine_tips |-> Len(routine_suggestions),
             workouts |-> Len(workout_recommendations),
             meals |-> Len(meal_recommendations),
             scheduling |-> Len(schedule_suggestions),
             ai_interventions |-> Len(proactive_interventions),
             high_priority |->
                 PriorityCount(HighPriorityItems(
                                   routine_suggestions, workout_recommendations,
                                   meal_recommendations, schedule_suggestions),
                               "high"),
             urgent_interventions |-> PriorityCount(proactive_interventions, "urgent"),
             ai_confidence |-> ai_confidence,
             ai_status |-> AiStatus(ai_confidence),
             has_wellness_profile |-> wellness_profile # <<>>,
             profile_completeness |->
                 IF wellness_profile # <<>>
                 THEN RMin(One, R(Cardinality(DOMAIN wellness_profile), 7))
                 ELSE Zero] :
        wellness_profile \in {generate_wellness_profile(interventions.memo, rs).ret.val}}) :
      routine_suggestions \in {suggest_routine_optimizations(rs)},
      workout_recommendations \in {recommend_workouts(ws, rs, td)},
      meal_recommendations \in {recommend_meals(ds, rs, td, h)},
      schedule_suggestions \in {suggest_optimal_scheduling(rs)},
      interventions \in {generate_proactive_interventions(<<>>, rs)}})

-----------------------------------------------------------------------------
(* Spec: the pattern analyzer over a growing stored history.  Every action *)
(* is one request: a write of the CRUD pages, or a call on an engine       *)
(* instance constructed for the request.  Such a call is a function of the *)
(* stores alone, so it is taken from the state a write left (Written): the *)
(* states reached are the same as when calls may follow calls.             *)

T_0700 == <<"0","7",":","0","0">>
T_0900 == <<"0","9",":","0","0">>
T_1400 == <<"1","4",":","0","0">>
T_1800 == <<"1","8",":","0","0">>
T_2100 == <<"2","1",":","0","0">>
T_2200 == <<"2","2",":","0","0">>
NoText == <<>>

\* two long Work tasks, one of them without a 'completed' key
RoutineOverwork ==
    Routine(3, TRUE,
        <<Task(T_0900, <<"D","e","e","p"," ","w","o","r","k">>, NoText, "Work", 180, TRUE, TRUE),
          Task(T_1400, <<"W","r","i","s","t"," ","p","a","i","n"," ","l","o","g">>, NoText, "Work", 200, FALSE, FALSE)>>)

\* a long completed run and a skipped session, no recovery activity
RoutineExercise ==
    Routine(1, TRUE,
        <<Task(T_0700, <<"R","u","n">>, NoText, "Exercise", 90, TRUE, TRUE),
          Task(T_1800, <<"L","e","g"," ","d","a","y">>, NoText, "Exercise", 100, FALSE, TRUE)>>)

\* four completed recovery activities
RoutineRecovery ==
    Routine(2, TRUE,
        <<Task(T_2100, <<"R","e","a","d">>, NoText, "Personal", 60, TRUE, TRUE),
          Task(T_2200, <<"E","v","e","n","i","n","g"," ","S","t","r","e","t","c","h">>, NoText, "Evening", 60, TRUE, TRUE),
          Task(T_2100, <<"J","o","u","r","n","a","l">>, NoText, "Personal", 60, TRUE, TRUE),
          Task(T_0700, <<"S","T","R","E","T","C","H">>, NoText, "Other", 60, TRUE, TRUE)>>)

\* a routine without tasks
RoutineEmpty == Routine(0, TRUE, <<>>)

RoutinePool == {RoutineOverwork, RoutineExercise, RoutineRecovery, RoutineEmpty}

Init ==
    /\ routines = <<>>
    /\ workouts = <<>>
    /\ diets = <<>>
    /\ today = 4
    /\ hour = 8
    /\ memo = <<>>
    /\ op = "init"
    /\ result = NoResult
    /\ routines_data = <<>>

\* no call has been served since the stores or the clock changed
Written == op \in {"init", "save_routines", "save_workouts", "save_diets", "clock"}

\* the CRUD pages append a routine and save the list (dm.save_routines)
SaveRoutine ==
    /\ Len(routines) < MaxRoutines
    /\ \E r \in RoutinePool : routines' = Append(routines, r)
    /\ memo' = <<>>
    /\ op' = "save_routines"
    /\ result' = NoResult
    /\ UNCHANGED <<workouts, diets, today, hour, routines_data>>

GetCompletionPatterns ==
    /\ Written
    /\ op' = "get_completion_patterns"
    /\ result' = IF PatternsRaises(routines) THEN Raised
                 ELSE Returned(get_completion_patterns(routines))
    /\ memo' = <<>>
    /\ UNCHANGED <<routines, workouts, diets, today, hour, routines_data>>

\* the analyses called directly on the loaded history (dm.load_routines())
CalculateStressResilience ==
    /\ Written
    /\ op' = "_calculate_stress_resilience"
    /\ result' = Returned(calculate_stress_resilience(routines))
    /\ memo' = <<>>
    /\ UNCHANGED <<routines, workouts, diets, today, hour, routines_data>>

MeasureConsistency ==
    /\ Written
    /\ op' = "_measure_consistency"
    /\ result' = Returned(measure_consistency(routines))
    /\ memo' = <<>>
    /\ UNCHANGED <<routines, workouts, diets, today, hour, routines_data>>

IdentifyStrengths ==
    /\ Written
    /\ op' = "_identify_strengths"
    /\ result' = IF PatternsRaises(routines) THEN Raised
                 ELSE Returned(identify_strengths(routines, routines))
    /\ memo' = <<>>
    /\ UNCHANGED <<routines, workouts, diets, today, hour, routines_data>>

Next ==
    \/ SaveRoutine
    \/ GetCompletionPatterns
    \/ CalculateStressResilience
    \/ MeasureConsistency
    \/ IdentifyStrengths

Spec == Init /\ [][Next]_vars

-----------------------------------------------------------------------------
(* Properties of the pattern analyzer, checked under Spec                  *)

\* the daily completion rates of the stored history, in stored order
DailyRates == Force([i \in 1..Len(routines) |-> RoutineRate(routines[i])])

\* (avg_recovery - avg_stress + 3) / 6 of the stored history, unclamped
RawResilience ==
    IF routines = <<>> THEN R(1, 2)
    ELSE RDiv(RAdd(RSub(Mean([i \in 1..Len(routines) |-> RInt(DailyRecovery(routines[i]))]),
                        Mean([i \in 1..Len(routines) |-> RInt(DailyStress(routines[i]))])),
                   RInt(3)), RInt(6))

\* C4: for every routine history resilience_score is within [0,1], also
\* when average stress far exceeds average recovery; and for every history
\* of at least 3 routines consistency_score.score equals
\* 1 - stdev(daily completion rates) and is within [0,1].
C4_ScoresWithinUnitInterval ==
    /\ op = "_calculate_stress_resilience" =>
          /\ ~result.raised
          /\ RGe(result.val.resilience_score, Zero)
          /\ RLe(result.val.resilience_score, One)
    /\ (op = "_measure_consistency" /\ Len(routines) >= 3) =>
          /\ ~result.raised
          /\ result.val.score = OneMinus(Stdev(DailyRates))
          /\ SurdGe(result.val.score, Zero)
          /\ SurdLe(result.val.score, One)

\* a history whose raw resilience quotient is negative has been scored 0
C4_StressExceedsRecovery ==
    /\ op = "_calculate_stress_resilience"
    /\ RLt(RawResilience, Zero)
    /\ result.val.resilience_score = Zero

\* the four strength conditions of the stored history
StrengthConditionFires ==
    LET patterns == get_completion_patterns(routines)
    IN  \/ RGt(patterns.total_completion_rate, R(4, 5))
        \/ \E c \in DOMAIN patterns.best_categories :
               RGt(SuccessRate(patterns.best_categories[c]), R(17, 20))
        \/ SurdGt(measure_consistency(routines).score, R(4, 5))
        \/ assess_recovery_requirements(routines).need_level = "adequate"

\* C5: the strengths list of _identify_strengths is never empty, the empty
\* history included; when none of the four strength conditions fires it is
\* exactly ["Building healthy habits foundation"].
C5_StrengthsNeverEmpty ==
    op = "_identify_strengths" =>
        /\ ~result.raised
        /\ result.val # <<>>
        /\ ~StrengthConditionFires =>
               result.val = <<"Building healthy habits foundation">>

\* a non-empty history on which no condition fires got the fallback
C5_FallbackReturned ==
    /\ op = "_identify_strengths"
    /\ routines # <<>>
    /\ ~StrengthConditionFires
    /\ result.val = <<"Building healthy habits foundation">>

\* the tasks of the stored history, and those whose completed flag is true
TotalTasks == SumSeq([i \in 1..Len(routines) |-> Len(routines[i].tasks)])
FlaggedCompleted ==
    SumSeq([i \in 1..Len(routines) |->
        Cardinality({j \in 1..Len(routines[i].tasks) :
            /\ routines[i].tasks[j].has_completed
            /\ routines[i].tasks[j].completed})])
UnflaggedTasks ==
    SumSeq([i \in 1..Len(routines) |->
        Cardinality({j \in 1..Len(routines[i].tasks) :
            ~routines[i].tasks[j].has_completed})])

\* C6: for every non-empty history total_completion_rate of
\* get_completion_patterns equals (tasks with completed = true) / (tasks)
\* over all routines, is within [0,1], and is 0 when the history holds no
\* task; a task without a completed flag counts as not completed.
C6_TotalCompletionRate ==
    (op = "get_completion_patterns" /\ routines # <<>>) =>
        /\ ~result.raised
        /\ RGe(result.val.total_completion_rate, Zero)
        /\ RLe(result.val.total_completion_rate, One)
        /\ IF TotalTasks = 0
           THEN result.val.total_completion_rate = Zero
           ELSE result.val.total_completion_rate = R(FlaggedCompleted, TotalTasks)

\* a history with a task that has no completed flag has been analysed
C6_UnflaggedTaskCounted ==
    /\ op = "get_completion_patterns"
    /\ UnflaggedTasks > 0
    /\ FlaggedCompleted > 0
    /\ result.val.total_completion_rate = R(FlaggedCompleted, TotalTasks)

\* C7: the consistency trend is exactly "insufficient_data", with score 0,
\* for every history of 0, 1 or 2 routines, and is never
\* "insufficient_data" for a history of 5 or more routines.
C7_InsufficientDataTrend ==
    op = "_measure_consistency" =>
        /\ ~result.raised
        /\ Len(routines) <= 2 =>
               /\ result.val.trend = "insufficient_data"
               /\ result.val.score = SurdOf(Zero)
        /\ Len(routines) >= 5 => result.val.trend # "insufficient_data"

\* a history of two routines has been measured
C7_TwoRoutinesMeasured ==
    /\ op = "_measure_consistency"
    /\ Len(routines) = 2
    /\ result.val.trend = "insufficient_data"

-----------------------------------------------------------------------------
(* SpecWorkout: recommend_workouts over a growing workout catalog and a    *)
(* short recent history.  The clock stands at day 4.                       *)

WorkoutWristFlow == Workout(Chars("Wrist Flow"), <<"Wrists">>, "Beginner", 20)
WorkoutHeavyChest == Workout(Chars("Heavy Chest"), <<"Chest", "Arms">>, "Advanced", 75)
WorkoutFullBody == Workout(Chars("Full Body"), <<"Legs", "Chest">>, "Intermediate", 45)

WorkoutWristRehab == Workout(Chars("Wrist Rehab"), <<"Wrists">>, "Beginner", 75)

WorkoutPool == {WorkoutWristFlow, WorkoutHeavyChest, WorkoutFullBody, WorkoutWristRehab}

\* two days ago: a wrist exercise and a completed chest session
LogWristRelief ==
    Routine(2, TRUE,
        <<Task(T_0900, Chars("Wrist relief"), NoText, "Personal", 15, TRUE, TRUE),
          Task(T_1800, Chars("Push press"), NoText, "Exercise", 40, TRUE, TRUE)>>)

\* today: a completed run
LogRunToday ==
    Routine(4, TRUE, <<Task(T_0700, Chars("Run"), NoText, "Exercise", 30, TRUE, TRUE)>>)

\* yesterday: one stretch among five tasks, the exercise skipped
LogStretch ==
    Routine(3, TRUE,
        <<Task(T_0700, Chars("Stretch"), NoText, "Personal", 10, TRUE, TRUE),
          Task(T_0900, Chars("Deep work"), NoText, "Work", 90, TRUE, TRUE),
          Task(T_1400, Chars("Emails"), NoText, "Work", 30, FALSE, TRUE),
          Task(T_1800, Chars("Squat and lunge"), NoText, "Exercise", 45, FALSE, TRUE),
          Task(T_2100, Chars("Read"), NoText, "Personal", 30, TRUE, TRUE)>>)

\* three days ago: a completed wrist exercise and nothing else
LogWristCurls ==
    Routine(1, TRUE,
        <<Task(T_0700, Chars("Wrist curls"), NoText, "Exercise", 20, TRUE, TRUE)>>)

LogPool == {LogWristRelief, LogRunToday, LogStretch, LogWristCurls}

\* the workout page appends a plan and saves the catalog (dm.save_workouts)
SaveWorkout ==
    /\ Len(workouts) < MaxWorkouts
    /\ \E w \in WorkoutPool : workouts' = Append(workouts, w)
    /\ memo' = <<>>
    /\ op' = "save_workouts"
    /\ result' = NoResult
    /\ UNCHANGED <<routines, diets, today, hour, routines_data>>

\* the routine page appends a day and saves the history
LogRoutine ==
    /\ Len(routines) < MaxLog
    /\ \E r \in LogPool : routines' = Append(routines, r)
    /\ memo' = <<>>
    /\ op' = "save_routines"
    /\ result' = NoResult
    /\ UNCHANGED <<workouts, diets, today, hour, routines_data>>

\* a recommendation that leaves an empty catalog behind (a mutation)
RecommendWorkoutsConsumingCatalog ==
    /\ Written
    /\ op' = "recommend_workouts"
    /\ result' = IF WorkoutsRaises(workouts, routines) THEN Raised
                 ELSE Returned(recommend_workouts(workouts, routines, today))
    /\ memo' = <<>>
    /\ workouts' = <<>>
    /\ UNCHANGED <<routines, diets, today, hour, routines_data>>

RecommendWorkouts ==
    /\ Written
    /\ op' = "recommend_workouts"
    /\ result' = IF WorkoutsRaises(workouts, routines) THEN Raised
                 ELSE Returned(recommend_workouts(workouts, routines, today))
    /\ memo' = <<>>
    /\ UNCHANGED <<routines, workouts, diets, today, hour, routines_data>>

NextWorkout ==
    \/ SaveWorkout
    \/ LogRoutine
    \/ RecommendWorkouts

SpecWorkout == Init /\ [][NextWorkout]_vars

\* C1: for every workout catalog and routine history recommend_workouts
\* returns at most 3 recommendations, ordered by score non-increasing, and
\* every returned recommendation has a score strictly greater than 0.5 and
\* at most 1.0.
C1_WorkoutRecommendationsBounded ==
    (op = "recommend_workouts" /\ ~result.raised) =>
        /\ Len(result.val) <= 3
        /\ \A i \in 1..Len(result.val) :
              /\ RGt(result.val[i].score, R(1, 2))
              /\ RLe(result.val[i].score, One)
        /\ \A i \in 1..Len(result.val) : \A j \in i..Len(result.val) :
              RGe(result.val[i].score, result.val[j].score)

\* a catalog with more than three candidates has been cut to the top three,
\* of different scores
C1_TopThreeOfFour ==
    /\ op = "recommend_workouts"
    /\ Len(workouts) > 3
    /\ Len(result.val) = 3
    /\ RGt(result.val[1].score, result.val[3].score)

\* the tasks of the last 3 days
RecentTasks ==
    Concat([i \in 1..Len(routines) |->
        IF routines[i].date >= today - 3 THEN routines[i].tasks ELSE <<>>])

\* the catalog holds one Beginner workout that targets only "Wrists", every
\* task of the last 3 days is named after the wrist, and the last completed
\* Exercise task is 3 days old
WristScenario ==
    /\ Len(workouts) = 1
    /\ workouts[1].difficulty = "Beginner"
    /\ workouts[1].target_muscle_groups = <<"Wrists">>
    /\ RecentTasks # <<>>
    /\ \A i \in 1..Len(RecentTasks) :
           Contains(Lower(RecentTasks[i].name), <<"w","r","i","s","t">>)
    /\ \E i \in 1..Len(routines) :
           /\ routines[i].date = today - 3
           /\ \E j \in 1..Len(routines[i].tasks) :
                  /\ routines[i].tasks[j].category = "Exercise"
                  /\ Completed(routines[i].tasks[j])
    /\ \A i \in 1..Len(routines) :
           routines[i].date > today - 3 =>
               \A j \in 1..Len(routines[i].tasks) :
                   ~(routines[i].tasks[j].category = "Exercise"
                     /\ Completed(routines[i].tasks[j]))

\* the muscle-balance factor and the duration factor of the one workout
WristMuscleFactor ==
    LET worked == analyze_muscle_group_usage(get_recent_workouts(routines, today, 7))
    IN  IF "Wrists" \in DOMAIN worked THEN R(11, 10) ELSE R(7, 5)
WristDurationFactor ==
    IF workouts[1].estimated_duration <= 30 THEN R(6, 5)
    ELSE IF workouts[1].estimated_duration > 60 THEN R(9, 10) ELSE One

\* C15: given a catalog holding one Beginner workout that targets only
\* "Wrists", a pain level of 'high' (every task of the last 3 days has a
\* name containing "wrist") and 3 days since the last completed Exercise
\* task, recommend_workouts returns that workout with score =
\* min(1.0, 0.5 * 1.0 * 1.3 * muscle-balance factor * duration factor) and a
\* reason containing "wrist-friendly".
C15_WristWorkoutRecommended ==
    (op = "recommend_workouts" /\ WristScenario) =>
        /\ ~result.raised
        /\ Len(result.val) = 1
        /\ result.val[1].workout = workouts[1]
        /\ result.val[1].score =
              RMin(One, RMul(RMul(RMul(RMul(R(1, 2), One), R(13, 10)),
                                  WristMuscleFactor), WristDurationFactor))
        /\ Contains(result.val[1].reason, Chars("wrist-friendly"))

\* the scenario has been served for a workout of more than an hour
C15_WristScenarioServed ==
    /\ op = "recommend_workouts"
    /\ WristScenario
    /\ workouts[1].estimated_duration > 60
    /\ Len(result.val) = 1
    /\ result.val[1].score = R(1287, 2000)

-----------------------------------------------------------------------------
(* SpecMeal: recommend_meals and the meal scorer over a growing diet       *)
(* catalog, a short recent history and the hour of the day.                *)

DietBalanced ==
    Diet("Balanced",
        <<Meal(Chars("Oatmeal Breakfast"), 350, 12, 60, 6, <<Chars("Oat"), Chars("milk")>>),
          Meal(Chars("Chicken Salad Lunch"), 500, 40, 20, 15,
               <<Chars("chicken"), Chars("lettuce")>>),
          Meal(Chars("Pasta Dinner"), 650, 25, 90, 18, <<Chars("pasta"), Chars("tomato")>>)>>)

DietRecovery ==
    Diet("Recovery",
        <<Meal(Chars("Recovery Bowl"), 500, 30, 60, 12,
               <<Chars("rice"), Chars("egg"), Chars("kale"), Chars("tofu"),
                 Chars("corn"), Chars("miso")>>),
          Meal(Chars("Yogurt Cup"), 150, 10, 15, 4, <<Chars("yogurt")>>)>>)

\* a plan saved without meals
DietDraft == Diet("Draft", <<>>)

DietPool == {DietBalanced, DietRecovery, DietDraft}

\* yesterday's dinner, described by its six ingredients
MealLogBowl ==
    Routine(3, TRUE,
        <<Task(T_1800, Chars("Dinner"), Chars("Rice egg kale tofu corn miso"),
               "Personal", 30, TRUE, TRUE)>>)

\* a breakfast without description, and a task that is no meal
MealLogOatmeal ==
    Routine(2, TRUE,
        <<Task(T_0700, Chars("Oatmeal breakfast"), NoText, "Morning", 15, TRUE, TRUE),
          Task(T_0900, Chars("Deep work"), Chars("milk run"), "Work", 90, TRUE, TRUE)>>)

MealLogPool == {MealLogBowl, MealLogOatmeal}

\* an hour of each meal time
ClockHours == {8, 12, 19, 22}

MealTimes == {"Breakfast", "Lunch", "Dinner", "Snack"}

\* the diet page appends a plan and saves the catalog (dm.save_diets)
SaveDiet ==
    /\ Len(diets) < MaxDiets
    /\ \E d \in DietPool : diets' = Append(diets, d)
    /\ memo' = <<>>
    /\ op' = "save_diets"
    /\ result' = NoResult
    /\ UNCHANGED <<routines, workouts, today, hour, routines_data>>

\* the routine page appends a day and saves the history
LogMeals ==
    /\ Len(routines) < MaxMealLog
    /\ \E r \in MealLogPool : routines' = Append(routines, r)
    /\ memo' = <<>>
    /\ op' = "save_routines"
    /\ result' = NoResult
    /\ UNCHANGED <<workouts, diets, today, hour, routines_data>>

\* time passes: the next engine is constructed at another hour
Tick ==
    /\ \E h \in ClockHours \ {hour} : hour' = h
    /\ memo' = <<>>
    /\ op' = "clock"
    /\ result' = NoResult
    /\ UNCHANGED <<routines, workouts, diets, today, routines_data>>

RecommendMeals ==
    /\ Written
    /\ op' = "recommend_meals"
    /\ result' = IF MealsRaises(diets, routines, today) THEN Raised
                 ELSE Returned(recommend_meals(diets, routines, today, hour))
    /\ memo' = <<>>
    /\ UNCHANGED <<routines, workouts, diets, today, hour, routines_data>>

\* the scorer called on a meal of the catalog, with the preferences of the
\* catalog or with none, for a meal time
ScoreMealRecommendation ==
    /\ Written
    /\ \E i \in 1..Len(AllMeals(diets)) :
       \E preferences \in {<<>>, analyze_nutritional_patterns(diets)} :
       \E meal_time \in MealTimes :
          result' = Returned(score_meal_recommendation(
                                 AllMeals(diets)[i], get_recent_meals(routines, today, 7),
                                 preferences, meal_time))
    /\ op' = "_score_meal_recommendation"
    /\ memo' = <<>>
    /\ UNCHANGED <<routines, workouts, diets, today, hour, routines_data>>

NextMeal ==
    \/ SaveDiet
    \/ LogMeals
    \/ Tick
    \/ RecommendMeals
    \/ ScoreMealRecommendation

SpecMeal == Init /\ [][NextMeal]_vars

\* C2: for every diet catalog, routine history and clock hour
\* recommend_meals returns at most 4 recommendations, ordered by score
\* non-increasing, and every returned recommendation has a score strictly
\* greater than 0.4 and at most 1.0.
C2_MealRecommendationsBounded ==
    (op = "recommend_meals" /\ ~result.raised) =>
        /\ Len(result.val) <= 4
        /\ \A i \in 1..Len(result.val) :
              /\ RGt(result.val[i].score, R(2, 5))
              /\ RLe(result.val[i].score, One)
        /\ \A i \in 1..Len(result.val) : \A j \in i..Len(result.val) :
              RGe(result.val[i].score, result.val[j].score)

\* a catalog with more than four candidates has been cut to the top four,
\* of different scores
C2_TopFourOfMore ==
    /\ op = "recommend_meals"
    /\ Len(AllMeals(diets)) > 4
    /\ Len(result.val) = 4
    /\ RGt(result.val[1].score, result.val[4].score)

\* C3: for every candidate meal, recent-meal text, preference set and
\* meal-time slot the score returned by _score_meal_recommendation lies in
\* [0,1], also when the overlapping-ingredient penalty
\* (1 - 0.2 * overlap_count) drives the raw product negative.
C3_MealScoreWithinUnitInterval ==
    op = "_score_meal_recommendation" =>
        /\ RGe(result.val, Zero)
        /\ RLe(result.val, One)

-----------------------------------------------------------------------------
(* SpecSummary: the dashboard summary and the entry points it calls, over  *)
(* a history that grows day by day and catalogs of at most MaxCatalog      *)
(* plans.                                                                  *)

StoreRoutine ==
    /\ Len(routines) < MaxStored
    /\ routines' = Append(routines, RoutineExercise)
    /\ memo' = <<>>
    /\ op' = "save_routines"
    /\ result' = NoResult
    /\ UNCHANGED <<workouts, diets, today, hour, routines_data>>

StoreWorkout ==
    /\ Len(workouts) < MaxCatalog
    /\ \E w \in {WorkoutWristFlow, WorkoutHeavyChest} : workouts' = Append(workouts, w)
    /\ memo' = <<>>
    /\ op' = "save_workouts"
    /\ result' = NoResult
    /\ UNCHANGED <<routines, diets, today, hour, routines_data>>

\* one breakfast at the calories the catalog then averages
DietMorning ==
    Diet("Morning",
        <<Meal(Chars("Power Breakfast"), 400, 25, 40, 10, <<Chars("egg"), Chars("toast")>>)>>)

StoreDiet ==
    /\ Len(diets) < MaxCatalog
    /\ \E d \in {DietBalanced, DietRecovery, DietMorning} : diets' = Append(diets, d)
    /\ memo' = <<>>
    /\ op' = "save_diets"
    /\ result' = NoResult
    /\ UNCHANGED <<routines, workouts, today, hour, routines_data>>

\* generate_wellness_profile() on a fresh engine
GenerateWellnessProfile ==
    /\ Written
    /\ op' = "generate_wellness_profile"
    /\ result' = generate_wellness_profile(<<>>, routines).ret
    /\ memo' = generate_wellness_profile(<<>>, routines).memo
    /\ UNCHANGED <<routines, workouts, diets, today, hour, routines_data>>

\* generate_proactive_interventions() on a fresh engine
GenerateProactiveInterventions ==
    /\ Written
    /\ op' = "generate_proactive_interventions"
    /\ result' = generate_proactive_interventions(<<>>, routines).ret
    /\ memo' = generate_proactive_interventions(<<>>, routines).memo
    /\ UNCHANGED <<routines, workouts, diets, today, hour, routines_data>>

SuggestRoutineOptimizations ==
    /\ Written
    /\ op' = "suggest_routine_optimizations"
    /\ result' = IF PatternsRaises(routines) THEN Raised
                 ELSE Returned(suggest_routine_optimizations(routines))
    /\ memo' = <<>>
    /\ UNCHANGED <<routines, workouts, diets, today, hour, routines_data>>

SuggestOptimalScheduling ==
    /\ Written
    /\ op' = "suggest_optimal_scheduling"
    /\ result' = IF PatternsRaises(routines) THEN Raised
                 ELSE Returned(suggest_optimal_scheduling(routines))
    /\ memo' = <<>>
    /\ UNCHANGED <<routines, workouts, diets, today, hour, routines_data>>

\* get_recommendation_summary(): its engine does not outlive the call
GetRecommendationSummary ==
    /\ Written
    /\ op' = "get_recommendation_summary"
    /\ result' = IF SummaryRaises(routines, workouts, diets, today) THEN Raised
                 ELSE Returned(get_recommendation_summary(
                                   routines, workouts, diets, today, hour))
    /\ memo' = <<>>
    /\ UNCHANGED <<routines, workouts, diets, today, hour, routines_data>>

NextSummary ==
    \/ StoreRoutine
    \/ StoreWorkout
    \/ StoreDiet
    \/ GenerateWellnessProfile
    \/ GenerateProactiveInterventions
    \/ SuggestRoutineOptimizations
    \/ SuggestOptimalScheduling
    \/ RecommendWorkouts
    \/ RecommendMeals
    \/ GetRecommendationSummary

SpecSummary == Init /\ [][NextSummary]_vars

\* C8: empty inputs never raise and yield empty outputs: with an empty
\* history generate_wellness_profile returns {} and
\* generate_proactive_interventions returns []; with an empty workout
\* catalog recommend_workouts returns []; with an empty diet catalog
\* recommend_meals returns []; with all three empty
\* get_recommendation_summary()['total'] is 0.
C8_EmptyInputsEmptyOutputs ==
    /\ (op = "generate_wellness_profile" /\ routines = <<>>) =>
          (~result.raised /\ result.val = <<>>)
    /\ (op = "generate_proactive_interventions" /\ routines = <<>>) =>
          (~result.raised /\ result.val = <<>>)
    /\ (op = "recommend_workouts" /\ workouts = <<>>) =>
          (~result.raised /\ result.val = <<>>)
    /\ (op = "recommend_meals" /\ diets = <<>>) =>
          (~result.raised /\ result.val = <<>>)
    /\ (op = "get_recommendation_summary"
          /\ routines = <<>> /\ workouts = <<>> /\ diets = <<>>) =>
          (~result.raised /\ result.val.total = 0)

\* the summary has been taken of three empty stores
C8_SummaryOfNothing ==
    /\ op = "get_recommendation_summary"
    /\ routines = <<>> /\ workouts = <<>> /\ diets = <<>>
    /\ ~result.raised
    /\ result.val.total = 0

\* C9: with an empty history, an empty workout catalog and an empty diet
\* catalog get_recommendation_summary() reports ai_status "Learning".
C9_EmptyStoresLearning ==
    (op = "get_recommendation_summary"
       /\ routines = <<>> /\ workouts = <<>> /\ diets = <<>>) =>
        (~result.raised /\ result.val.ai_status = "Learning")

\* C10: for every number n >= 0 of stored routines get_recommendation_summary
\* reports ai_confidence = min(0.95, max(0.3, n/10)), whatever else is
\* stored, and ai_status "Learning" when ai_confidence < 0.5, "Analyzing"
\* when < 0.7, "Optimizing" when < 0.9, otherwise "Mastered".
C10_ConfidenceFromVolume ==
    (op = "get_recommendation_summary" /\ ~result.raised) =>
        /\ result.val.ai_confidence =
              RMin(R(19, 20), RMax(R(3, 10), R(Len(routines), 10)))
        /\ result.val.ai_status =
              IF RLt(result.val.ai_confidence, R(1, 2)) THEN "Learning"
              ELSE IF RLt(result.val.ai_confidence, R(7, 10)) THEN "Analyzing"
              ELSE IF RLt(result.val.ai_confidence, R(9, 10)) THEN "Optimizing"
              ELSE "Mastered"

\* C11: in get_recommendation_summary high_priority is the number of items
\* of priority "high" among the routine-optimization suggestions, the
\* workout recommendations and the schedule suggestions only, whatever the
\* priorities of the meal recommendations; urgent_interventions is the
\* number of interventions of priority "urgent".
C11_HighPriorityExcludesMeals ==
    (op = "get_recommendation_summary" /\ ~result.raised) =>
        /\ result.val.high_priority =
              PriorityCount(suggest_routine_optimizations(routines), "high")
              + PriorityCount(recommend_workouts(workouts, routines, today), "high")
              + PriorityCount(suggest_optimal_scheduling(routines), "high")
        /\ result.val.urgent_interventions =
              PriorityCount(generate_proactive_interventions(<<>>, routines).ret.val,
                            "urgent")

\* a summary taken while a meal recommendation, another item and an
\* intervention carry the counted priorities
C11_HighPriorityMealUncounted ==
    /\ op = "get_recommendation_summary"
    /\ ~result.raised
    /\ PriorityCount(recommend_meals(diets, routines, today, hour), "high") > 0
    /\ result.val.high_priority > 0
    /\ result.val.urgent_interventions > 0

-----------------------------------------------------------------------------
(* SpecFrame: every engine operation, each on an engine constructed for    *)
(* the request, between the writes of the CRUD pages                       *)

\* get_real_time_coaching() on a fresh engine
GetRealTimeCoaching ==
    /\ Written
    /\ op' = "get_real_time_coaching"
    /\ \E call \in {get_real_time_coaching(<<>>, routines, hour)} :
          result' = call.ret /\ memo' = call.memo
    /\ UNCHANGED <<routines, workouts, diets, today, hour, routines_data>>

NextFrame ==
    \/ StoreRoutine
    \/ StoreWorkout
    \/ StoreDiet
    \/ GetCompletionPatterns
    \/ GenerateWellnessProfile
    \/ GenerateProactiveInterventions
    \/ GetRealTimeCoaching
    \/ SuggestRoutineOptimizations
    \/ SuggestOptimalScheduling
    \/ RecommendWorkouts
    \/ RecommendMeals
    \/ GetRecommendationSummary

SpecFrame == Init /\ [][NextFrame]_vars

EngineOperations ==
    {"generate_wellness_profile", "get_completion_patterns", "recommend_workouts",
     "recommend_meals", "suggest_routine_optimizations", "suggest_optimal_scheduling",
     "generate_proactive_interventions", "get_real_time_coaching",
     "get_recommendation_summary"}

\* C18: no engine operation changes the stored routine history, workout
\* catalog or diet catalog.
C18_StoresUnchangedByEngine ==
    [][op' \in EngineOperations => UNCHANGED <<routines, workouts, diets>>]_vars

\* every store holds something and the engine has recommended from them
C18_RecommendedFromFullStores ==
    /\ op = "recommend_workouts"
    /\ routines # <<>> /\ workouts # <<>> /\ diets # <<>>
    /\ ~result.raised
    /\ result.val # <<>>

-----------------------------------------------------------------------------
(* SpecEngine: one engine instance that lives on while the CRUD pages      *)
(* write the history.  A call is made on the live instance                 *)
(* ("engine.<method>") or on an instance constructed for the call          *)
(* ("SmartRecommendationsEngine().<method>"), which then is the live one.  *)

EnginePool == {RoutineOverwork, RoutineExercise, RoutineRecovery}

LiveCalls ==
    {"engine.generate_wellness_profile", "engine.generate_proactive_interventions",
     "engine.get_real_time_coaching", "engine.generate_adaptive_meal_timing"}

\* dm.save_routines while the instance lives: its memo stays
EngineSaveRoutine ==
    /\ Len(routines) < MaxEngineLog
    /\ \E r \in EnginePool : routines' = Append(routines, r)
    /\ op' = "save_routines"
    /\ result' = NoResult
    /\ UNCHANGED <<workouts, diets, today, hour, memo, routines_data>>

EngineGenerateWellnessProfile ==
    /\ \E call \in {generate_wellness_profile(memo, routines)} :
          result' = call.ret /\ memo' = call.memo
    /\ op' = "engine.generate_wellness_profile"
    /\ UNCHANGED <<routines, workouts, diets, today, hour, routines_data>>

EngineGenerateProactiveInterventions ==
    /\ \E call \in {generate_proactive_interventions(memo, routines)} :
          result' = call.ret /\ memo' = call.memo
    /\ op' = "engine.generate_proactive_interventions"
    /\ UNCHANGED <<routines, workouts, diets, today, hour, routines_data>>

EngineGetRealTimeCoaching ==
    /\ \E call \in {get_real_time_coaching(memo, routines, hour)} :
          result' = call.ret /\ memo' = call.memo
    /\ op' = "engine.get_real_time_coaching"
    /\ UNCHANGED <<routines, workouts, diets, today, hour, routines_data>>

EngineGenerateAdaptiveMealTiming ==
    /\ \E call \in {generate_adaptive_meal_timing(memo, routines)} :
          result' = call.ret /\ memo' = call.memo
    /\ op' = "engine.generate_adaptive_meal_timing"
    /\ UNCHANGED <<routines, workouts, diets, today, hour, routines_data>>

\* get_completion_patterns reads the history and keeps nothing
EngineGetCompletionPatterns ==
    /\ op' = "engine.get_completion_patterns"
    /\ result' = IF PatternsRaises(routines) THEN Raised
                 ELSE Returned(get_completion_patterns(routines))
    /\ UNCHANGED <<routines, workouts, diets, today, hour, memo, routines_data>>

FreshGenerateWellnessProfile ==
    /\ \E call \in {generate_wellness_profile(<<>>, routines)} :
          result' = call.ret /\ memo' = call.memo
    /\ op' = "SmartRecommendationsEngine().generate_wellness_profile"
    /\ UNCHANGED <<routines, workouts, diets, today, hour, routines_data>>

FreshGetCompletionPatterns ==
    /\ op' = "SmartRecommendationsEngine().get_completion_patterns"
    /\ result' = IF PatternsRaises(routines) THEN Raised
                 ELSE Returned(get_completion_patterns(routines))
    /\ memo' = <<>>
    /\ UNCHANGED <<routines, workouts, diets, today, hour, routines_data>>

NextEngine ==
    \/ EngineSaveRoutine
    \/ EngineGenerateWellnessProfile
    \/ EngineGenerateProactiveInterventions
    \/ EngineGetRealTimeCoaching
    \/ EngineGenerateAdaptiveMealTiming
    \/ EngineGetCompletionPatterns
    \/ FreshGenerateWellnessProfile
    \/ FreshGetCompletionPatterns

SpecEngine == Init /\ [][NextEngine]_vars

\* C12: on one engine instance, once generate_wellness_profile has computed
\* a profile from a non-empty history, every later call of
\* generate_wellness_profile, generate_proactive_interventions,
\* get_real_time_coaching and generate_adaptive_meal_timing on that instance
\* keeps and uses that memoized profile, also after the stored history has
\* changed; a freshly constructed engine computes the profile of the
\* history then stored.
C12_MemoizedProfileServed ==
    [][/\ (memo # <<>> /\ op' \in LiveCalls) =>
            /\ memo' = memo
            /\ op' = "engine.generate_wellness_profile" =>
                   result' = Returned(memo[1])
            /\ op' = "engine.generate_proactive_interventions" =>
                   result' = Returned(Interventions(memo[1]))
            /\ op' = "engine.get_real_time_coaching" =>
                   result' = Returned(Coaching(memo[1], hour))
            /\ op' = "engine.generate_adaptive_meal_timing" =>
                   result' = Returned(AdaptiveMealTiming(memo[1]))
       /\ (op' = "SmartRecommendationsEngine().generate_wellness_profile"
             /\ routines # <<>>) =>
            result' = Returned(BuildProfile(routines, routines))]_vars

\* the live instance has served interventions from a profile that is no
\* longer the profile of the stored history
C12_StaleProfileServed ==
    /\ op = "engine.generate_proactive_interventions"
    /\ memo # <<>>
    /\ memo[1] # BuildProfile(routines, routines)
    /\ result = Returned(Interventions(memo[1]))
    /\ result # Returned(Interventions(BuildProfile(routines, routines)))

PatternCalls ==
    {"engine.get_completion_patterns",
     "SmartRecommendationsEngine().get_completion_patterns"}

-----------------------------------------------------------------------------
(* SpecMalformed: the entry points over a history that the CRUD pages did  *)
(* not validate: a date that is no date, a meal task without description,  *)
(* times that are no times of day.                                         *)

\* 'date' does not parse
RoutineBadDate ==
    Routine(2, FALSE,
        <<Task(T_0900, Chars("Deep work"), NoText, "Work", 60, TRUE, TRUE)>>)

\* yesterday's breakfast, stored without a 'description' key
RoutineNoDescription ==
    Routine(3, TRUE,
        <<TaskWithoutDescription(T_0700, Chars("Breakfast"), "Morning", 15, TRUE)>>)

\* a time that is no number, an hour after 23, and a time of day
RoutineOddTimes ==
    Routine(1, TRUE,
        <<Task(Chars("noon"), Chars("Standup"), NoText, "Work", 30, TRUE, TRUE),
          Task(Chars("25:00"), Chars("Late call"), NoText, "Work", 30, TRUE, TRUE),
          Task(T_1400, Chars("Review"), NoText, "Work", 30, FALSE, TRUE)>>)

MalformedPool == {RoutineBadDate, RoutineNoDescription, RoutineOddTimes, RoutineExercise}

SaveRecord ==
    /\ Len(routines) < MaxMalformedLog
    /\ \E r \in MalformedPool : routines' = Append(routines, r)
    /\ memo' = <<>>
    /\ op' = "save_routines"
    /\ result' = NoResult
    /\ UNCHANGED <<workouts, diets, today, hour, routines_data>>

NextMalformed ==
    \/ SaveRecord
    \/ StoreWorkout
    \/ StoreDiet
    \/ GetCompletionPatterns
    \/ GenerateWellnessProfile
    \/ RecommendWorkouts
    \/ RecommendMeals

SpecMalformed == Init /\ [][NextMalformed]_vars

\* the stored routines whose date parses
DatedRoutines == SelectSeq(routines, LAMBDA r : r.date_ok)

\* C13: no single malformed routine record makes a public entry point
\* raise: with a routine whose date does not parse, or a meal-named task
\* without description field, in the history, get_completion_patterns,
\* generate_wellness_profile, recommend_workouts and recommend_meals do not
\* raise, and the patterns are those of the remaining records.
C13_MalformedRecordSkipped ==
    (op \in {"get_completion_patterns", "generate_wellness_profile",
             "recommend_workouts", "recommend_meals"}) =>
        /\ ~result.raised
        /\ op = "get_completion_patterns" =>
               result.val = get_completion_patterns(DatedRoutines)

\* the tasks of the stored history, and those whose time starts with an
\* hour of the day
StoredTasks == AllTasks(DatedRoutines)
HasHourOfDay(task) == TaskHour(task).ok /\ TaskHour(task).val \in 0..23
TimedTasks == SelectSeq(StoredTasks, HasHourOfDay)

\* the entries of all the lists of a dict of lists
RECURSIVE EntriesOf(_, _)
EntriesOf(d, keys) ==
    IF keys = {} THEN 0
    ELSE The({Len(d[k]) + EntriesOf(d, keys \ {k}) : k \in {CHOOSE x \in keys : TRUE}})

Entries(d) == EntriesOf(d, DOMAIN d)

\* C14: a task whose time string is unparsable, or whose hour is outside
\* 0..23, is left out of every time-period bucket (best_times) and every
\* hourly-energy bucket, while it is still counted in the category, weekday
\* and total-completion statistics.
C14_BadTimeLeftOutOfBuckets ==
    (op = "get_completion_patterns" /\ ~result.raised /\ routines # <<>>) =>
        /\ Entries(result.val.best_categories) = Len(StoredTasks)
        /\ Entries(result.val.completion_by_weekday) = Len(StoredTasks)
        /\ result.val.total_completion_rate =
              (IF StoredTasks = <<>> THEN Zero
               ELSE R(Len(SelectSeq(StoredTasks, Completed)), Len(StoredTasks)))
        /\ HourlyEnergy(routines) =
              HourlyEnergy([i \in 1..Len(routines) |->
                  [routines[i] EXCEPT !.tasks = SelectSeq(@, HasHourOfDay)]])
        /\ Entries(result.val.best_times) = Len(TimedTasks)

\* the tasks of the whole stored history
HistoryTasks == AllTasks(routines)

\* C30: CompletionPatterns conserve task counts for every history: the
\* lengths of the best_categories lists sum to the total number of tasks, as
\* do the lengths of the completion_by_weekday lists; the lengths of the
\* optimal_durations lists sum to the number of completed tasks; and the
\* lengths of the best_times lists sum to the number of tasks with a
\* parsable hour, which is at most the total.
C30_PatternsConserveTaskCounts ==
    (op = "get_completion_patterns" /\ ~result.raised) =>
        /\ Entries(result.val.best_categories) = Len(HistoryTasks)
        /\ Entries(result.val.completion_by_weekday) = Len(HistoryTasks)
        /\ Entries(result.val.optimal_durations) = Len(SelectSeq(HistoryTasks, Completed))
        /\ Entries(result.val.best_times) =
               Len(SelectSeq(HistoryTasks, LAMBDA t : TaskHour(t).ok))
        /\ Entries(result.val.best_times) <= Len(HistoryTasks)

\* patterns of a history with a missed task and a task without parsable hour
C30_CountsOfUnevenHistory ==
    /\ op = "get_completion_patterns"
    /\ ~result.raised
    /\ Entries(result.val.best_times) < Entries(result.val.best_categories)
    /\ 0 < Entries(result.val.optimal_durations)
    /\ Entries(result.val.optimal_durations) < Entries(result.val.completion_by_weekday)

-----------------------------------------------------------------------------
(* SpecTrend: consecutive days of one task each, done or not               *)

T_0800 == <<"0","8",":","0","0">>

\* the routine of day d: one Work task of an hour at 08:00
OneTaskDay(d, completed) ==
    Routine(d, TRUE,
        <<Task(T_0800, Chars("Focus block"), NoText, "Work", 60, completed, TRUE)>>)

SaveDay ==
    /\ Len(routines) < MaxTrendDays
    /\ \E completed \in BOOLEAN :
           routines' = Append(routines, OneTaskDay(Len(routines) + 1, completed))
    /\ memo' = <<>>
    /\ op' = "save_routines"
    /\ result' = NoResult
    /\ UNCHANGED <<workouts, diets, today, hour, routines_data>>

NextTrend ==
    \/ SaveDay
    \/ MeasureConsistency
    \/ GetCompletionPatterns

SpecTrend == Init /\ [][NextTrend]_vars

\* 7 consecutive days alternating done and not done, the first one done
AlternatingWeek == [d \in 1..7 |-> OneTaskDay(d, d % 2 = 1)]

\* mean(last 3) - mean(prior window) of the daily rates r, the prior window
\* being r[-6:-3] from 6 rates on and all but the last 3 for 5 rates
TrendDifference(r) ==
    LET n == Len(r)
    IN  RSub(Mean(SubSeq(r, n - 2, n)),
             IF n >= 6 THEN Mean(SubSeq(r, n - 5, n - 3)) ELSE Mean(SubSeq(r, 1, n - 3)))

\* C16: for a history of n routines sorted by date with daily completion
\* rates r the consistency trend is "establishing" if n is 3 or 4, and for
\* n >= 5 "improving" when mean(last 3) - mean(prior window) > 0.1,
\* "declining" when that difference < -0.1, else "stable"; 7 consecutive
\* one-task routines alternating completed true/false from true on give
\* total_completion_rate 4/7 and trend "improving".
C16_TrendFromLastThree ==
    /\ op = "_measure_consistency" =>
          /\ ~result.raised
          /\ Len(routines) \in {3, 4} => result.val.trend = "establishing"
          /\ Len(routines) >= 5 =>
                result.val.trend =
                    (IF RGt(TrendDifference(DailyRates), R(1, 10)) THEN "improving"
                     ELSE IF RLt(TrendDifference(DailyRates), R(-1, 10)) THEN "declining"
                     ELSE "stable")
          /\ routines = AlternatingWeek => result.val.trend = "improving"
    /\ (op = "get_completion_patterns" /\ routines = AlternatingWeek) =>
          (~result.raised /\ result.val.total_completion_rate = R(4, 7))

\* the alternating week has been measured: 2/3 against 1/3
C16_AlternatingWeekImproving ==
    /\ op = "_measure_consistency"
    /\ routines = AlternatingWeek
    /\ result.val.trend = "improving"
    /\ TrendDifference(DailyRates) = R(1, 3)

-----------------------------------------------------------------------------
(* SpecInterleaved: generate_wellness_profile in the two steps its two     *)
(* reads of the history make, while another session writes the history.    *)
(* routines_data is the local of the call in flight, <<>> when none is.    *)

\* another session appends a routine and saves (dm.save_routines)
SessionSaveRoutine ==
    /\ Len(routines) < MaxInterleavedLog
    /\ \E r \in EnginePool : routines' = Append(routines, r)
    /\ op' = "save_routines"
    /\ result' = NoResult
    /\ UNCHANGED <<workouts, diets, today, hour, memo, routines_data>>

\* a fresh engine starts generate_wellness_profile: routines_data =
\* self.dm.load_routines(); an empty history is answered at once
LoadForProfile ==
    /\ routines_data = <<>>
    /\ routines_data' = routines
    /\ memo' = <<>>
    /\ IF routines = <<>>
       THEN op' = "generate_wellness_profile" /\ result' = Returned(<<>>)
       ELSE op' = "load_routines" /\ result' = NoResult
    /\ UNCHANGED <<routines, workouts, diets, today, hour>>

\* the call in flight builds the profile: six analyses of routines_data,
\* and _identify_strengths, whose get_completion_patterns loads the history
\* again; the profile is kept and returned
BuildAndReturnProfile ==
    /\ routines_data # <<>>
    /\ \E profile \in {BuildProfile(routines_data, routines)} :
          result' = Returned(profile) /\ memo' = <<profile>>
    /\ op' = "generate_wellness_profile"
    /\ routines_data' = <<>>
    /\ UNCHANGED <<routines, workouts, diets, today, hour>>

NextInterleaved ==
    \/ SessionSaveRoutine
    \/ LoadForProfile
    \/ BuildAndReturnProfile

SpecInterleaved == Init /\ [][NextInterleaved]_vars

\* C19: all seven profile fields are derived from the one history snapshot
\* read at the start of generate_wellness_profile: a write to the stored
\* history that interleaves with the call cannot make strengths reflect a
\* different history than the other six fields.
C19_ProfileFromOneSnapshot ==
    [][(routines_data # <<>> /\ op' = "generate_wellness_profile") =>
           /\ result'.val.consistency_score = measure_consistency(routines_data)
           /\ result'.val.strengths = identify_strengths(routines_data, routines_data)]_vars


-----------------------------------------------------------------------------
(* Stress indicators of the stored history, checked under Spec             *)

\* 2 for each Work task longer than 120 minutes plus 1 for each task whose
\* lowercased name holds a pain word, the two counted independently
AdditiveDailyStress(r) ==
    2 * Cardinality({j \in 1..Len(r.tasks) :
            r.tasks[j].category = "Work" /\ r.tasks[j].duration > 120})
    + Cardinality({j \in 1..Len(r.tasks) :
            ContainsAny(Lower(r.tasks[j].name), PainWords)})

\* the mean of the additive daily stress over the stored history
AdditiveAvgStress ==
    Mean([i \in 1..Len(routines) |-> RInt(AdditiveDailyStress(routines[i]))])

\* the mean daily recovery of the stored history
StoredAvgRecovery ==
    Mean([i \in 1..Len(routines) |-> RInt(DailyRecovery(routines[i]))])

\* C20: per routine daily_stress is 2 x (Work tasks with duration > 120)
\* plus 1 x (tasks of any category whose name contains "pain", "relief" or
\* "wrist", case-insensitively), so a long Work task with such a name
\* contributes 3; the returned scores are those of that average stress.
C20_StressCountsBothIndicators ==
    (op = "_calculate_stress_resilience" /\ routines # <<>>) =>
        /\ ~result.raised
        /\ result.val.resilience_score =
               ResilienceScore(StoredAvgRecovery, AdditiveAvgStress)
        /\ result.val.stress_recovery_ratio =
               RDiv(StoredAvgRecovery, RMax(AdditiveAvgStress, One))

-----------------------------------------------------------------------------
(* Real-time coaching at every hour of the day: SpecCoaching               *)

\* longest stored history in SpecCoaching
MaxCoachingLog == 2

\* the hours datetime.now().hour can take
DayHours == 0..23

CoachingPool == {RoutineOverwork, RoutineExercise, RoutineRecovery}

CoachingSaveRoutine ==
    /\ Len(routines) < MaxCoachingLog
    /\ \E r \in CoachingPool : routines' = Append(routines, r)
    /\ memo' = <<>>
    /\ op' = "save_routines"
    /\ result' = NoResult
    /\ UNCHANGED <<workouts, diets, today, hour, routines_data>>

\* time passes: the next engine is constructed at another hour of the day
CoachingTick ==
    /\ \E h \in DayHours \ {hour} : hour' = h
    /\ memo' = <<>>
    /\ op' = "clock"
    /\ result' = NoResult
    /\ UNCHANGED <<routines, workouts, diets, today, routines_data>>

NextCoaching ==
    \/ CoachingSaveRoutine
    \/ CoachingTick
    \/ GenerateWellnessProfile
    \/ GetRealTimeCoaching

SpecCoaching == Init /\ [][NextCoaching]_vars

\* "x in xs" for a Python list
InList(x, xs) == \E i \in 1..Len(xs) : xs[i] = x

\* C21: for every hour 0..23 and every non-empty profile the coaching has
\* status 'peak_energy' and confidence 0.9 when the current hour is in
\* peak_energy_hours, status 'low_energy' and confidence 0.85 when it is in
\* low_energy_hours, and 'moderate_energy' and 0.7 otherwise; stress_alert
\* and priority_adjustment are present exactly when stress_level is 'High'.
C21_CoachingFollowsEnergyHours ==
    (op = "get_real_time_coaching" /\ routines # <<>>) =>
        \E energy \in {analyze_energy_patterns(routines)},
           stress \in {calculate_stress_resilience(routines)} :
            /\ ~result.raised
            /\ InList(hour, energy.peak_energy_hours) =>
                   /\ result.val.status = "peak_energy"
                   /\ result.val.confidence = R(9, 10)
            /\ InList(hour, energy.low_energy_hours) =>
                   /\ result.val.status = "low_energy"
                   /\ result.val.confidence = R(17, 20)
            /\ (~InList(hour, energy.peak_energy_hours)
                  /\ ~InList(hour, energy.low_energy_hours)) =>
                   /\ result.val.status = "moderate_energy"
                   /\ result.val.confidence = R(7, 10)
            /\ "stress_alert" \in DOMAIN result.val <=> stress.stress_level = "High"
            /\ "priority_adjustment" \in DOMAIN result.val <=> stress.stress_level = "High"

\* C26: in every generated wellness profile peak_energy_hours and
\* low_energy_hours share no hour.
C26_PeakAndLowHoursDisjoint ==
    (op = "generate_wellness_profile" /\ ~result.raised /\ result.val # <<>>) =>
        \A i \in 1..Len(result.val.energy_patterns.peak_energy_hours) :
            ~InList(result.val.energy_patterns.peak_energy_hours[i],
                    result.val.energy_patterns.low_energy_hours)

-----------------------------------------------------------------------------
(* Scheduling suggestions over a week of daily routines: SpecSchedule      *)

\* longest stored history in SpecSchedule
MaxScheduleDays == 5

\* the tasks of one day: two tasks logged without a clock time, or three
\* tasks at one clock time, all completed or all missed
DayTasks(kind, completed) ==
    IF kind = "untimed"
    THEN <<Task(Chars("noon"), Chars("Plan"), NoText, "Personal", 30, completed, TRUE),
           Task(Chars("noon"), Chars("Review"), NoText, "Personal", 30, completed, TRUE)>>
    ELSE <<Task(IF kind = "morning" THEN T_0900 ELSE T_1400,
                Chars("Plan"), NoText, "Personal", 30, completed, TRUE),
           Task(IF kind = "morning" THEN T_0900 ELSE T_1400,
                Chars("Review"), NoText, "Personal", 30, completed, TRUE),
           Task(IF kind = "morning" THEN T_0900 ELSE T_1400,
                Chars("Tidy"), NoText, "Personal", 30, completed, TRUE)>>

DayKinds == {<<"untimed", TRUE>>, <<"untimed", FALSE>>,
             <<"morning", TRUE>>, <<"afternoon", FALSE>>}

\* the routine of the next day is saved
SaveScheduleDay ==
    /\ Len(routines) < MaxScheduleDays
    /\ \E k \in DayKinds :
          routines' = Append(routines, Routine(Len(routines), TRUE, DayTasks(k[1], k[2])))
    /\ memo' = <<>>
    /\ op' = "save_routines"
    /\ result' = NoResult
    /\ UNCHANGED <<workouts, diets, today, hour, routines_data>>

NextSchedule ==
    \/ SaveScheduleDay
    \/ GetCompletionPatterns
    \/ SuggestOptimalScheduling

SpecSchedule == Init /\ [][NextSchedule]_vars

\* among the lists of d with at least min_samples samples, the best success
\* rate exceeds the worst by more than gap
RateGapExceeds(d, min_samples, gap) ==
    \E a, b \in {k \in DOMAIN d : Len(d[k]) >= min_samples} :
        RGt(RSub(SuccessRate(d[a]), SuccessRate(d[b])), gap)

\* the suggestions of the last call that have this type and priority
SuggestionsOf(type, priority) ==
    {i \in 1..Len(result.val) :
        result.val[i].type = type /\ result.val[i].priority = priority}

\* C22: suggest_optimal_scheduling emits a high-priority time-of-day
\* suggestion whenever, among time periods with at least 3 samples, best rate
\* - worst rate > 0.2, and a medium-priority weekday suggestion whenever more
\* than 3 weekdays have at least 2 samples each and best weekday rate - worst
\* weekday rate > 0.15, whatever the time-period data is.
C22_SchedulingSuggestionsIndependent ==
    (op = "suggest_optimal_scheduling" /\ ~result.raised) =>
        \E patterns \in {get_completion_patterns(routines)} :
            /\ RateGapExceeds(patterns.best_times, 3, R(1, 5))
                   <=> SuggestionsOf("schedule_optimization", "high") # {}
            /\ (/\ Cardinality({d \in DOMAIN patterns.completion_by_weekday :
                        Len(patterns.completion_by_weekday[d]) >= 2}) > 3
                /\ RateGapExceeds(patterns.completion_by_weekday, 2, R(3, 20)))
                   <=> SuggestionsOf("weekly_optimization", "medium") # {}

-----------------------------------------------------------------------------
(* The wellness trajectory of histories logged out of date order:          *)
(* SpecTrajectory                                                          *)

\* longest stored history in SpecTrajectory
MaxTrajectoryDays == 8

\* the date of the i-th routine saved: days are logged out of order
LoggedDates == <<3, 1, 2, 5, 4, 7, 6, 0>>

\* two evening tasks of which `done` are completed
EveningTasks(done) ==
    <<Task(T_2100, Chars("Read"), NoText, "Personal", 30, done >= 1, TRUE),
      Task(T_2200, Chars("Journal"), NoText, "Personal", 30, done >= 2, TRUE)>>

SaveLoggedDay ==
    /\ Len(routines) < MaxTrajectoryDays
    /\ \E done \in 0..2 :
          routines' = Append(routines,
                          Routine(LoggedDates[Len(routines) + 1], TRUE, EveningTasks(done)))
    /\ memo' = <<>>
    /\ op' = "save_routines"
    /\ result' = NoResult
    /\ UNCHANGED <<workouts, diets, today, hour, routines_data>>

PredictWellnessTrajectory ==
    /\ Written
    /\ op' = "_predict_wellness_trajectory"
    /\ result' = Returned(predict_wellness_trajectory(routines))
    /\ memo' = <<>>
    /\ UNCHANGED <<routines, workouts, diets, today, hour, routines_data>>

NextTrajectory ==
    \/ SaveLoggedDay
    \/ PredictWellnessTrajectory
    \/ MeasureConsistency

SpecTrajectory == Init /\ [][NextTrajectory]_vars

\* the completion rate of the stored routine that has `later` routines dated
\* after it (the dates of a SpecTrajectory history are distinct)
RateFromEnd(later) ==
    RoutineRate(routines[CHOOSE i \in 1..Len(routines) :
        Cardinality({j \in 1..Len(routines) : routines[j].date > routines[i].date}) = later])

\* k = min(n, 7)
WindowSize == IF Len(routines) < 7 THEN Len(routines) ELSE 7

\* C24: _predict_wellness_trajectory returns {prediction: 'Insufficient
\* data', confidence: 0} for fewer than 5 routines; for n >= 5 it uses the
\* k = min(n, 7) most recent routines by date: trend_direction is 'improving'
\* exactly when the last rate is strictly greater than the first of those k
\* (else 'declining'), momentum = (last - first)/k, confidence =
\* min(0.9, k/10), predicted_next_week = mean(last 3) + momentum clamped
\* into [0,1].
C24_TrajectoryOfRecentWindow ==
    op = "_predict_wellness_trajectory" =>
        /\ ~result.raised
        /\ Len(routines) < 5 =>
               result.val = [prediction |-> "Insufficient data", confidence |-> Zero]
        /\ Len(routines) >= 5 =>
               \E last \in {RateFromEnd(0)}, first \in {RateFromEnd(WindowSize - 1)} :
                   /\ result.val.trend_direction \in {"improving", "declining"}
                   /\ result.val.trend_direction = "improving" <=> RGt(last, first)
                   /\ result.val.momentum = RDiv(RSub(last, first), RInt(WindowSize))
                   /\ result.val.confidence = RMin(R(9, 10), R(WindowSize, 10))
                   /\ result.val.predicted_next_week =
                          RMax(Zero, RMin(One,
                              RAdd(Mean(<<RateFromEnd(2), RateFromEnd(1), RateFromEnd(0)>>),
                                   result.val.momentum)))

\* a trajectory over eight routines whose earliest-dated one, saved last, is
\* outside the window of seven
C24_EightRoutinesWindowOfSeven ==
    /\ op = "_predict_wellness_trajectory"
    /\ Len(routines) = 8
    /\ result.val.confidence = R(7, 10)
    /\ result.val.trend_direction = "improving"
    /\ RoutineRate(routines[8]) # RateFromEnd(6)

-----------------------------------------------------------------------------
(* Proactive interventions over up to six days: SpecIntervention           *)

\* longest stored history in SpecIntervention
MaxInterventionDays == 6

\* a day of two evening tasks, both completed or both missed, or a day of
\* two long Work sessions of which the first is completed
InterventionDay(d, kind) ==
    Routine(d, TRUE,
        IF kind = "rest" THEN EveningTasks(2)
        ELSE IF kind = "idle" THEN EveningTasks(0)
        ELSE <<Task(T_0900, Chars("Deep work"), NoText, "Work", 180, TRUE, TRUE),
               Task(T_1400, Chars("Report"), NoText, "Work", 150, FALSE, TRUE)>>)

SaveInterventionDay ==
    /\ Len(routines) < MaxInterventionDays
    /\ \E kind \in {"rest", "idle", "work"} :
          routines' = Append(routines, InterventionDay(Len(routines), kind))
    /\ memo' = <<>>
    /\ op' = "save_routines"
    /\ result' = NoResult
    /\ UNCHANGED <<workouts, diets, today, hour, routines_data>>

NextIntervention ==
    \/ SaveInterventionDay
    \/ GenerateWellnessProfile
    \/ GenerateProactiveInterventions

SpecIntervention == Init /\ [][NextIntervention]_vars

\* the positions of the returned interventions of a type
ReturnedOfType(type) == {i \in 1..Len(result.val) : result.val[i].type = type}

\* the returned interventions of a type are one, with this confidence and
\* priority, when the check holds, and none when it does not
EmittedExactlyWhen(check, type, ai_confidence, priority) ==
    /\ Cardinality(ReturnedOfType(type)) = (IF check THEN 1 ELSE 0)
    /\ \A i \in ReturnedOfType(type) :
          /\ result.val[i].ai_confidence = ai_confidence
          /\ result.val[i].priority = priority

\* C23: generate_proactive_interventions returns at most 3 interventions, one
\* for each of three independent checks that holds (energy_stability > 0.3:
\* ai_confidence 0.85, priority high; resilience_score < 0.6: 0.78, high;
\* trend_direction == 'declining': the trajectory's confidence, urgent), and
\* the list is ordered by ai_confidence non-increasing.
C23_InterventionsPerCheckSorted ==
    (op = "generate_proactive_interventions" /\ routines # <<>>) =>
        \E energy \in {analyze_energy_patterns(routines)},
           stress \in {calculate_stress_resilience(routines)},
           trajectory \in {predict_wellness_trajectory(routines)} :
            /\ ~result.raised
            /\ Len(result.val) <= 3
            /\ EmittedExactlyWhen(SurdGt(energy.energy_stability, R(3, 10)),
                                  "energy_stabilization", R(17, 20), "high")
            /\ EmittedExactlyWhen(RLt(stress.resilience_score, R(3, 5)),
                                  "stress_management", R(39, 50), "high")
            /\ EmittedExactlyWhen(/\ "trend_direction" \in DOMAIN trajectory
                                  /\ trajectory.trend_direction = "declining",
                                  "trajectory_correction", trajectory.confidence, "urgent")
            /\ Len(result.val) = Cardinality(ReturnedOfType("energy_stabilization")
                                     \cup ReturnedOfType("stress_management")
                                     \cup ReturnedOfType("trajectory_correction"))
            /\ \A i \in 1..(Len(result.val) - 1) :
                  RGe(result.val[i].ai_confidence, result.val[i + 1].ai_confidence)

\* all three checks held and three interventions were returned
C23_ThreeInterventionsReturned ==
    /\ op = "generate_proactive_interventions"
    /\ Len(result.val) = 3
    /\ result.val[1].type = "energy_stabilization"
    /\ result.val[2].type = "stress_management"
    /\ result.val[3].type = "trajectory_correction"

\* C25: the urgent trajectory_correction intervention is emitted only when
\* the completion rate fell across the trajectory window (last rate < first
\* rate); it is never emitted for a history in which every routine has all
\* of its tasks completed.
C25_CorrectionOnlyAfterDecline ==
    (op = "generate_proactive_interventions" /\ ~result.raised
        /\ ReturnedOfType("trajectory_correction") # {}) =>
        /\ RLt(RateFromEnd(0), RateFromEnd(WindowSize - 1))
        /\ \E i \in 1..Len(routines) : RoutineRate(routines[i]) # One

\* C28: within one wellness profile of a history of at least 5 routines,
\* consistency_score.trend 'improving' implies trend_direction is not
\* 'declining', and trend 'declining' implies trend_direction is not
\* 'improving'.
C28_TrendsNeverContradict ==
    (op = "generate_wellness_profile" /\ ~result.raised /\ Len(routines) >= 5) =>
        /\ result.val.consistency_score.trend = "improving" =>
               result.val.wellness_trajectory.trend_direction # "declining"
        /\ result.val.consistency_score.trend = "declining" =>
               result.val.wellness_trajectory.trend_direction # "improving"

-----------------------------------------------------------------------------
(* Workout recommendations on the days after a workout: SpecRest           *)

\* yesterday: a completed run and a wrist relief session
LogRunYesterday ==
    Routine(3, TRUE,
        <<Task(T_0700, Chars("Run"), NoText, "Exercise", 30, TRUE, TRUE),
          Task(T_2100, Chars("Wrist relief"), NoText, "Personal", 15, TRUE, TRUE)>>)

RestLogPool == {LogRunYesterday, LogRunToday, LogWristRelief, LogWristCurls}

LogRestRoutine ==
    /\ Len(routines) < MaxLog
    /\ \E r \in RestLogPool : routines' = Append(routines, r)
    /\ memo' = <<>>
    /\ op' = "save_routines"
    /\ result' = NoResult
    /\ UNCHANGED <<workouts, diets, today, hour, routines_data>>

NextRest ==
    \/ SaveWorkout
    \/ LogRestRoutine
    \/ RecommendWorkouts

SpecRest == Init /\ [][NextRest]_vars

\* the dates of the stored routines that hold a completed Exercise task
WorkoutDates ==
    {routines[i].date : i \in {k \in 1..Len(routines) :
        \E j \in 1..Len(routines[k].tasks) :
            /\ routines[k].tasks[j].category = "Exercise"
            /\ Completed(routines[k].tasks[j])}}

\* the most recent completed Exercise task is dated today or yesterday
WorkedOutTodayOrYesterday ==
    /\ WorkoutDates # {}
    /\ \A d \in WorkoutDates : d <= today
    /\ \E d \in WorkoutDates : d \in {today, today - 1}

\* 0.5 x 0.4 x 1.3 x 1.4 x 1.2
LargestScoreAfterOneDay == RMul(RMul(RMul(RMul(R(1, 2), R(2, 5)), R(13, 10)), R(7, 5)), R(6, 5))

\* the score of the i-th workout of the catalog against the stored history
CatalogScore(i) ==
    score_workout_recommendation(
        workouts[i],
        today - (CHOOSE d \in WorkoutDates : \A e \in WorkoutDates : e <= d),
        analyze_muscle_group_usage(get_recent_workouts(routines, today, 7)),
        assess_pain_level(routines, today))

\* C27: recommend_workouts returns no recommendation when the most recent
\* completed Exercise task is dated today or yesterday, for every catalog,
\* pain level and muscle-group usage: no score then exceeds
\* 0.5 x 0.4 x 1.3 x 1.4 x 1.2, which is below the 0.5 threshold.
C27_NoWorkoutAfterRecentExercise ==
    (op = "recommend_workouts" /\ WorkedOutTodayOrYesterday) =>
        /\ ~result.raised
        /\ result.val = <<>>
        /\ RLt(LargestScoreAfterOneDay, R(1, 2))
        /\ \A i \in 1..Len(workouts) : RLe(CatalogScore(i), LargestScoreAfterOneDay)

\* a catalog holding a workout that reaches the largest score one day after a
\* run was left without recommendation
C27_BestWorkoutHeldBack ==
    /\ op = "recommend_workouts"
    /\ WorkedOutTodayOrYesterday
    /\ result.val = <<>>
    /\ \E i \in 1..Len(workouts) : CatalogScore(i) = LargestScoreAfterOneDay

====
